---------------------------- MODULE Spec2Model ----------------------------
(***************************************************************************)
(* A model of the linea-20 batch transaction engine:                       *)
(*   - the nonce allocator of src/lib/interact.js (getNextNonce,           *)
(*     releaseNonce, the nonceTracker map),                                *)
(*   - the three run loops (executeBatchTransactions,                      *)
(*     batchSendRawTransactions, sendEth),                                 *)
(*   - the job records the HTTP handlers of index.js keep for each run.    *)
(* Every await of the source is a step boundary: a process sits at a pc    *)
(* while the awaited network call, timer or promise is outstanding.        *)
(* The network is an environment: each call to it may succeed or fail.     *)
(***************************************************************************)
EXTENDS Integers, Sequences, FiniteSets

\* ------------------------------------------------------------------ bounds
NProcs == 2
NAddr == 2
MaxBase == 1
MaxCalls == 3
MaxObj == 3
MaxTimers == 2
MaxRetries == 2
MaxItems == 2
MaxCount == 2
MaxUnits == 1
MaxBalance == 3
MaxFailItems == 4
MaxPairItems == 1
MaxJobItems == 1
MaxJobRetries == 2
MaxKey == 2
MaxGas == 3
Fine == 10
MaxSecond == 1
MaxAttempts == 8

Procs == 1..NProcs
Addrs == 1..NAddr
NoLease == 0
NoKey == 0

VARIABLES
  \* the network and the nonce allocator (interact.js)
  netPending,    \* [Addrs -> Nat]: the network's pending transaction count
  nonceTracker,  \* [Addrs -> 0..MaxObj]: the Map; the tracker object of a key, NoLease when absent
  objNonce,      \* [1..MaxObj -> Nat]: the nonce field of each tracker object ever created
  objAddr,       \* [1..MaxObj -> Addrs]: the key each tracker object was stored under
  nextObj,       \* the next fresh tracker object
  timers,        \* [Addrs -> Nat]: pending setTimeout callbacks of releaseNonce
  gnPc,          \* [Procs -> position inside getNextNonce]
  gnAddr,        \* [Procs -> Addrs]: the address of the call in flight
  gnObj,         \* [Procs -> 0..MaxObj]: the tracker object the call captured before its await
  gnRet,         \* [Procs -> Nat]: the value the call returned
  \* bare callers of the allocator
  calls,         \* calls invoked so far by the callers
  allocLog,      \* the calls that ended, in order: [p, a, n, net, ok]
  lateInvoke,    \* a call was invoked after another call had ended
  overlap,       \* a call was invoked while another call was in flight
  leaseDeleted,  \* a timer callback has deleted a lease
  \* a run: its configuration
  mode,          \* [Procs -> "none" | "caller" | "token" | "raw" | "ethBatch" | "ethSingle"]
  sender,        \* [Procs -> Addrs]: wallet.address
  retries,       \* [Procs -> Nat]
  delay,         \* [Procs -> Nat]
  txGiven,       \* [Procs -> SUBSET {"chainId", "gasLimit"}]: the optional fields the transactions of a raw batch carry
  min, max,      \* [Procs -> Nat]: the amount bounds of a token batch, in steps of 1/Fine of one unit
  count,         \* [Procs -> Nat]: the request's count
  planned,       \* [Procs -> Seq(Nat)]: token: units per item; raw: tx.count per transaction (0: absent); eth: one entry per transaction
  balance,       \* [Procs -> Nat]: tokenBalanceUnits
  \* a run: its position and locals
  pc, i, c, txNumber, attempt, success,
  nonce,         \* [Procs -> Nat]: the nonce of the attempt in flight
  err,           \* [Procs -> the error the run threw]
  results,       \* [Procs -> Seq([index, confirmed])]: txLog / results
  failed,        \* [Procs -> Seq(Nat)]: the index of each failure record
  summary,       \* [Procs -> the value the run returned]
  \* the job registry (index.js)
  jobKeys,       \* the keys of the Map `jobs`, in insertion order
  jobStatus, jobTotal, jobCompleted, jobResults, jobError, jobResult,
  jobTrail,      \* [Procs -> Seq(status)]: the values assigned to job.status, in order
  jobRuns,       \* [Procs -> Nat]: runs started for the job id
  \* requests on the registry
  resp,          \* the last response of GET or DELETE /batch/:jobId
  deletedAt,     \* [Procs -> status]: the status of the job when its record was deleted; "none" while it was not
  \* observations
  tries,         \* [Procs -> Seq(Nat)]: attempts started per planned item
  opItem,        \* [Procs -> Nat]: the last item a nonce read, signature or broadcast was made for
  exhausted,     \* [Procs -> SUBSET Nat]: items whose retry budget ran out in a catch block
  accepted,      \* [Procs -> Nat]: broadcasts the network accepted for the item in hand
  waitFailed,    \* [Procs -> Nat]: the item in hand, once a confirmation wait of it failed after its broadcast was accepted; 0 before
  progressCalls, \* [Procs -> Nat]: onProgress calls
  logWritten,    \* [Procs -> BOOLEAN]: the txlog file was written
  logFile,       \* [Procs -> Seq(entry)]: the entries read back from the file at logPath
  backoff,       \* [Procs -> Nat]: the milliseconds of the backoff wait in progress, 0 when none is
  \* the server's configuration (config.js) and the pure functions applied
  apiKey,        \* config.apiKey, NoKey when not configured
  privateApiKey, \* config.privateApiKey, NoKey when not configured
  fn,            \* the last application of a pure function: its name, arguments and value
  \* the clock and the log directory
  now,           \* Math.floor(Date.now() / 1000)
  files,         \* [0..MaxSecond -> file]: the file `${logDir}/${timestamp}.txlog.json` of each timestamp
  logPath        \* [Procs -> 0..MaxSecond]: the timestamp in the logPath a run returned

allocVars == <<netPending, nonceTracker, objNonce, objAddr, nextObj, timers, gnPc, gnAddr, gnObj, gnRet>>
callerVars == <<calls, allocLog, lateInvoke, overlap, leaseDeleted>>
cfgVars == <<mode, sender, retries, delay, txGiven, min, max, count, planned, balance>>
ctlVars == <<pc, i, c, txNumber, attempt, success, nonce, err>>
dataVars == <<results, failed, summary>>
jobVars == <<jobKeys, jobStatus, jobTotal, jobCompleted, jobResults, jobError, jobResult, jobTrail, jobRuns>>
regVars == <<resp, deletedAt>>
srvVars == <<apiKey, privateApiKey>>
obsVars == <<tries, opItem, exhausted, accepted, waitFailed, progressCalls, logWritten, logFile, backoff>>
runVars == <<cfgVars, ctlVars, dataVars, jobVars, obsVars>>
fsVars == <<now, files, logPath>>
vars == <<allocVars, callerVars, runVars, regVars, srvVars, fsVars, fn>>

\* ----------------------------------------------------------------- helpers
Min(a, b) == IF a < b THEN a ELSE b

RECURSIVE SumSeq(_)
SumSeq(s) == IF s = <<>> THEN 0 ELSE Head(s) + SumSeq(Tail(s))

SeqsUpTo(S, n) == UNION {[1..k -> S] : k \in 0..n}

Range(s) == {s[k] : k \in DOMAIN s}

Zeros(n) == [k \in 1..n |-> 0]

\* The value a run returns: kind "none" before it returns, "undefined" when
\* the function ends without a return statement.
NoSummary ==
  [kind |-> "none", success |-> FALSE, total |-> 0, successful |-> 0,
   failed |-> 0, results |-> <<>>, failedTransactions |-> <<>>]

\* No pure function applied yet.
NoCall == [name |-> "none", args |-> <<>>, value |-> 0]

\* Response bodies: none sent, and `{ error: ... }`.
NoBody == [kind |-> "none"]
ErrorBody == [kind |-> "error"]

\* A path of the log directory no run has written to.
NoFile == [written |-> FALSE, text |-> <<>>]

\* No request answered yet.
NoResponse == [op |-> "none", id |-> 0, code |-> 0, body |-> NoBody]

\* The state after the module is loaded, but for the configured keys.
InitProgram ==
  /\ netPending \in [Addrs -> 0..MaxBase]
  /\ nonceTracker = [a \in Addrs |-> NoLease]
  /\ objNonce = [o \in 1..MaxObj |-> 0]
  /\ objAddr = [o \in 1..MaxObj |-> 1]
  /\ nextObj = 1
  /\ timers = [a \in Addrs |-> 0]
  /\ gnPc = [p \in Procs |-> "none"]
  /\ gnAddr = [p \in Procs |-> 1]
  /\ gnObj = [p \in Procs |-> NoLease]
  /\ gnRet = [p \in Procs |-> 0]
  /\ calls = 0
  /\ allocLog = <<>>
  /\ lateInvoke = FALSE
  /\ overlap = FALSE
  /\ leaseDeleted = FALSE
  /\ mode = [p \in Procs |-> "none"]
  /\ sender = [p \in Procs |-> 1]
  /\ retries = [p \in Procs |-> 0]
  /\ delay = [p \in Procs |-> 0]
  /\ txGiven = [p \in Procs |-> {}]
  /\ min = [p \in Procs |-> 0]
  /\ max = [p \in Procs |-> 0]
  /\ count = [p \in Procs |-> 0]
  /\ planned = [p \in Procs |-> <<>>]
  /\ balance = [p \in Procs |-> 0]
  /\ pc = [p \in Procs |-> "idle"]
  /\ i = [p \in Procs |-> 0]
  /\ c = [p \in Procs |-> 0]
  /\ txNumber = [p \in Procs |-> 0]
  /\ attempt = [p \in Procs |-> 0]
  /\ success = [p \in Procs |-> FALSE]
  /\ nonce = [p \in Procs |-> 0]
  /\ err = [p \in Procs |-> "none"]
  /\ results = [p \in Procs |-> <<>>]
  /\ failed = [p \in Procs |-> <<>>]
  /\ summary = [p \in Procs |-> NoSummary]
  /\ jobKeys = <<>>
  /\ jobStatus = [p \in Procs |-> "none"]
  /\ jobTotal = [p \in Procs |-> 0]
  /\ jobCompleted = [p \in Procs |-> 0]
  /\ jobResults = [p \in Procs |-> <<>>]
  /\ jobError = [p \in Procs |-> "none"]
  /\ jobResult = [p \in Procs |-> NoSummary]
  /\ jobTrail = [p \in Procs |-> <<>>]
  /\ jobRuns = [p \in Procs |-> 0]
  /\ resp = NoResponse
  /\ deletedAt = [p \in Procs |-> "none"]
  /\ tries = [p \in Procs |-> <<>>]
  /\ opItem = [p \in Procs |-> 0]
  /\ exhausted = [p \in Procs |-> {}]
  /\ accepted = [p \in Procs |-> 0]
  /\ waitFailed = [p \in Procs |-> 0]
  /\ progressCalls = [p \in Procs |-> 0]
  /\ logWritten = [p \in Procs |-> FALSE]
  /\ logFile = [p \in Procs |-> <<>>]
  /\ backoff = [p \in Procs |-> 0]
  /\ fn = NoCall
  /\ now = 0
  /\ files = [t \in 0..MaxSecond |-> NoFile]
  /\ logPath = [p \in Procs |-> 0]

\* JavaScript values: a number, undefined, and NaN.
Num(n) == [t |-> "number", v |-> n]
Undefined == [t |-> "undefined", v |-> 0]
NaN == [t |-> "NaN", v |-> 0]

\* The values of a .env: the keys are texts numbered from 1 (NoKey the empty
\* text), HOST is a text, PORT a text given as the sequence of its characters.
\* The server as the README configures it (15-21): a .env that sets
\* PRIVATE_KEY, API_KEY, HOST and PORT, with any secret as API_KEY.
DocumentedEnv ==
  {[PRIVATE_KEY |-> 1, API_KEY |-> k, HOST |-> "0.0.0.0", PORT |-> <<"3", "0", "0", "0">>] :
     k \in 1..MaxKey}

\* `process.env.NAME || ''`: the empty string when the variable is not set.
EnvOr(env, name) == IF name \in DOMAIN env THEN env[name] ELSE NoKey

\* parseInt(text, 10) of a text of digits and other characters that are
\* neither blank nor a sign: the number its leading digits spell, NaN when
\* it does not start with a digit; parseInt(undefined, 10) is NaN as well.
ParseInt(text) ==
  LET Digits == <<"0", "1", "2", "3", "4", "5", "6", "7", "8", "9">>
      IsDigit(ch) == \E d \in DOMAIN Digits : Digits[d] = ch
      DigitValue(ch) == (CHOOSE d \in DOMAIN Digits : Digits[d] = ch) - 1
      lead == Cardinality({k \in DOMAIN text : \A j \in 1..k : IsDigit(text[j])})
      RECURSIVE Value(_)
      Value(k) == IF k = 0 THEN 0 ELSE 10 * Value(k - 1) + DigitValue(text[k])
  IN IF lead = 0 THEN NaN ELSE Num(Value(lead))

\* `parseInt(process.env.PORT, 10) || 3000` (300): NaN and 0 are falsy.
DefaultPort == 3000
PortOr(env) ==
  LET parsed == ParseInt(IF "PORT" \in DOMAIN env THEN env.PORT ELSE <<>>)
  IN IF parsed = NaN \/ parsed = Num(0) THEN DefaultPort ELSE parsed.v

\* The config object (296-301): privateKey, apiKey, host and port; the host
\* is `process.env.HOST || '0.0.0.0'` (299), the default when HOST is not set
\* or is the empty text.
Config(env) ==
  [privateKey |-> EnvOr(env, "PRIVATE_KEY"), apiKey |-> EnvOr(env, "API_KEY"),
   host |-> IF "HOST" \in DOMAIN env /\ env.HOST # "" THEN env.HOST ELSE "0.0.0.0",
   port |-> PortOr(env)]

\* `config.name` as a middleware reads it: undefined, which is falsy like the
\* empty string, when the object has no such property.
ConfigProperty(cfg, name) == IF name \in DOMAIN cfg THEN cfg[name] ELSE NoKey

\* The two keys the middlewares read from the config object of a server
\* started in environment env.
ServerKeys(env) ==
  /\ apiKey = ConfigProperty(Config(env), "apiKey")
  /\ privateApiKey = ConfigProperty(Config(env), "privateApiKey")

\* A server started with API_KEY set.
Init ==
  /\ InitProgram
  /\ ServerKeys([PRIVATE_KEY |-> 1, API_KEY |-> 1, HOST |-> "0.0.0.0", PORT |-> <<"3", "0", "0", "0">>])

\* ------------------------------------------------- the nonce allocator
\* A getNextNonce that keeps one lease for all addresses.
GetNextNonceCallShared(p, a) ==
  /\ gnPc[p] = "none"
  /\ gnAddr' = [gnAddr EXCEPT ![p] = a]
  /\ IF nonceTracker[1] = NoLease
       THEN /\ gnPc' = [gnPc EXCEPT ![p] = "awaitNet"]
            /\ gnObj' = [gnObj EXCEPT ![p] = NoLease]
       ELSE /\ gnPc' = [gnPc EXCEPT ![p] = "awaitPromise"]
            /\ gnObj' = [gnObj EXCEPT ![p] = nonceTracker[1]]
  /\ UNCHANGED <<netPending, nonceTracker, objNonce, objAddr, nextObj, timers, gnRet>>

\* getNextNonce up to its first await: the has(key) test, then either the
\* network read (no lease) or the capture of the tracker object and the
\* await of its promise.
GetNextNonceCall(p, a) ==
  /\ gnPc[p] = "none"
  /\ gnAddr' = [gnAddr EXCEPT ![p] = a]
  /\ IF nonceTracker[a] = NoLease
       THEN /\ gnPc' = [gnPc EXCEPT ![p] = "awaitNet"]
            /\ gnObj' = [gnObj EXCEPT ![p] = NoLease]
       ELSE /\ gnPc' = [gnPc EXCEPT ![p] = "awaitPromise"]
            /\ gnObj' = [gnObj EXCEPT ![p] = nonceTracker[a]]
  /\ UNCHANGED <<netPending, nonceTracker, objNonce, objAddr, nextObj, timers, gnRet>>

\* The nonce field the first call stores in the tracker it creates.
FirstStoredNonce(n) == n

\* provider.getTransactionCount(address, "pending") answered: a new tracker
\* object replaces whatever the key holds, and the count is returned.
GetNextNonceNetOk(p) ==
  /\ gnPc[p] = "awaitNet"
  /\ nextObj <= MaxObj
  /\ LET a == gnAddr[p]
         n == netPending[a]
     IN /\ objNonce' = [objNonce EXCEPT ![nextObj] = FirstStoredNonce(n)]
        /\ objAddr' = [objAddr EXCEPT ![nextObj] = a]
        /\ nonceTracker' = [nonceTracker EXCEPT ![a] = nextObj]
        /\ nextObj' = nextObj + 1
        /\ gnRet' = [gnRet EXCEPT ![p] = n]
        /\ gnPc' = [gnPc EXCEPT ![p] = "returned"]
  /\ UNCHANGED <<netPending, timers, gnAddr, gnObj>>

\* A failed read that leaves a lease behind for the address.
GetNextNonceNetFailStores(p) ==
  /\ gnPc[p] = "awaitNet"
  /\ nextObj <= MaxObj
  /\ gnPc' = [gnPc EXCEPT ![p] = "threw"]
  /\ objAddr' = [objAddr EXCEPT ![nextObj] = gnAddr[p]]
  /\ nonceTracker' = [nonceTracker EXCEPT ![gnAddr[p]] = nextObj]
  /\ nextObj' = nextObj + 1
  /\ UNCHANGED <<netPending, objNonce, timers, gnAddr, gnObj, gnRet>>

\* The network read failed: the error propagates, the map is untouched.
GetNextNonceNetFail(p) ==
  /\ gnPc[p] = "awaitNet"
  /\ gnPc' = [gnPc EXCEPT ![p] = "threw"]
  /\ UNCHANGED <<netPending, nonceTracker, objNonce, objAddr, nextObj, timers, gnAddr, gnObj, gnRet>>

\* After `await tracker.promise`: read and increment the captured object.
GetNextNonceResume(p) ==
  /\ gnPc[p] = "awaitPromise"
  /\ LET tracker == gnObj[p]
         currentNonce == objNonce[tracker]
     IN /\ objNonce' = [objNonce EXCEPT ![tracker] = currentNonce + 1]
        /\ gnRet' = [gnRet EXCEPT ![p] = currentNonce]
        /\ gnPc' = [gnPc EXCEPT ![p] = "returned"]
  /\ UNCHANGED <<netPending, nonceTracker, objAddr, nextObj, timers, gnAddr, gnObj>>

\* releaseNonce: schedules the delete, deletes nothing now.
ReleaseNonce(a) ==
  timers' = [timers EXCEPT ![a] = timers[a] + 1]

\* The setTimeout callback of releaseNonce.
TimerFire(a) ==
  /\ timers[a] > 0
  /\ timers' = [timers EXCEPT ![a] = timers[a] - 1]
  /\ nonceTracker' = [nonceTracker EXCEPT ![a] = NoLease]
  /\ leaseDeleted' = (leaseDeleted \/ nonceTracker[a] # NoLease)
  /\ UNCHANGED <<netPending, objNonce, objAddr, nextObj, gnPc, gnAddr, gnObj, gnRet>>
  /\ UNCHANGED <<calls, allocLog, lateInvoke, overlap, runVars, regVars, srvVars, fsVars, fn>>

\* The steps of getNextNonce past its first await, for any process.
AllocStep(p) ==
  /\ \/ GetNextNonceNetOk(p)
     \/ GetNextNonceNetFail(p)
     \/ GetNextNonceResume(p)
  /\ UNCHANGED <<callerVars, regVars, srvVars, fsVars, fn, runVars>>

\* ------------------------------------------------------- bare callers
CallerInvoke(p, a) ==
  /\ mode[p] \in {"none", "caller"}
  /\ calls < MaxCalls
  /\ GetNextNonceCall(p, a)
  /\ mode' = [mode EXCEPT ![p] = "caller"]
  /\ calls' = calls + 1
  /\ lateInvoke' = (lateInvoke \/ allocLog # <<>> \/ \E q \in Procs : gnPc[q] \in {"returned", "threw"})
  /\ overlap' = (overlap \/ \E q \in Procs : gnPc[q] # "none")
  /\ UNCHANGED <<allocLog, leaseDeleted>>
  /\ UNCHANGED <<sender, retries, delay, txGiven, min, max, count, planned, balance, ctlVars, dataVars, jobVars, obsVars, regVars, srvVars, fsVars, fn>>

CallerCollect(p) ==
  /\ mode[p] = "caller"
  /\ gnPc[p] \in {"returned", "threw"}
  /\ allocLog' = Append(allocLog, [p |-> p, a |-> gnAddr[p], n |-> gnRet[p],
                                   net |-> gnObj[p] = NoLease, ok |-> gnPc[p] = "returned"])
  /\ gnPc' = [gnPc EXCEPT ![p] = "none"]
  /\ UNCHANGED <<netPending, nonceTracker, objNonce, objAddr, nextObj, timers, gnAddr, gnObj, gnRet>>
  /\ UNCHANGED <<calls, lateInvoke, overlap, leaseDeleted, runVars, regVars, srvVars, fsVars, fn>>

CallerRelease(p, a) ==
  /\ mode[p] = "caller"
  /\ gnPc[p] = "none"
  /\ timers[a] < MaxTimers
  /\ ReleaseNonce(a)
  /\ UNCHANGED <<netPending, nonceTracker, objNonce, objAddr, nextObj, gnPc, gnAddr, gnObj, gnRet>>
  /\ UNCHANGED <<callerVars, regVars, srvVars, fsVars, fn, runVars>>

NextNonce ==
  \/ \E p \in Procs, a \in Addrs : CallerInvoke(p, a)
  \/ \E p \in Procs : AllocStep(p)
  \/ \E p \in Procs : CallerCollect(p)
  \/ \E p \in Procs, a \in Addrs : CallerRelease(p, a)
  \/ \E a \in Addrs : TimerFire(a)

SpecNonce == Init /\ [][NextNonce]_vars

\* ------------------------------------------------------- the network
\* The pending count after the network accepted a transaction with nonce n:
\* the next expected nonce advances it, any other is queued or a replacement.
NetAccept(a, n) ==
  [netPending EXCEPT ![a] = IF n = netPending[a] THEN n + 1 ELSE netPending[a]]

\* ------------------------------------------------- shared by the loops
\* The steps and caps of the backoff waits, in milliseconds.
TokenBackoffStep == 5000
TokenBackoffCap == 30000
RawBackoffStep == 5000
RawBackoffCap == 30000
EthBackoffStep == 2000
EthBackoffCap == 10000

\* A backoff that grows without a cap.
BackoffUncapped(step, cap, att) == step * att

\* `Math.min(step * attempt, cap)`.
Backoff(step, cap, att) == Min(step * att, cap)

\* A budget that runs out one attempt early.
RetryExhaustedEarly(att, R) == att + 1 >= R

\* `attempt >= retries` in each catch block.
RetryExhausted(att, R) == att >= R

\* `while (attempt < retries && !success)`.
WhileContinues(att, R, ok) == att < R /\ ~ok

\* `tx.count || 1`.
CountOf(cnt) == IF cnt = 0 THEN 1 ELSE cnt

\* totalTransactions of batchSendRawTransactions.
RECURSIVE TotalTransactions(_)
TotalTransactions(txs) ==
  IF txs = <<>> THEN 0 ELSE CountOf(Head(txs)) + TotalTransactions(Tail(txs))

Bump(s, k) == [s EXCEPT ![k] = s[k] + 1]

\* An onProgress that keeps only the latest transaction.
OnProgressOverwrites(r, completed, transaction) ==
  /\ jobCompleted' = [jobCompleted EXCEPT ![r] = completed]
  /\ jobResults' = [jobResults EXCEPT ![r] = <<transaction>>]
  /\ progressCalls' = [progressCalls EXCEPT ![r] = progressCalls[r] + 1]
OnProgress(r, completed, transaction) ==
  /\ jobCompleted' = [jobCompleted EXCEPT ![r] = completed]
  /\ jobResults' = [jobResults EXCEPT ![r] = Append(jobResults[r], transaction)]
  /\ progressCalls' = [progressCalls EXCEPT ![r] = progressCalls[r] + 1]

\* An id generator that hands out an id again.
AnyJobId(id) == TRUE

\* The ids of the records in the Map.
jobs == {jobKeys[k] : k \in DOMAIN jobKeys}

\* Map.prototype.set on the keys: a new key goes last, a key already in the
\* Map keeps its place.
MapSet(keys, key) ==
  IF \E k \in DOMAIN keys : keys[k] = key THEN keys ELSE Append(keys, key)

\* Map.prototype.delete on the keys: the others keep their order.
MapDelete(keys, key) == SelectSeq(keys, LAMBDA x : x # key)

\* jobId = `job_${Date.now()}_${Math.random()...}`: the id of a create
\* request is one no earlier request was given.
FreshJobId(id) == jobRuns[id] = 0 /\ mode[id] = "none"

\* A create that stores the record and starts the run without the run's
\* first statement, job.status = "running".
CreateJobLate(r, total) ==
  /\ jobKeys' = MapSet(jobKeys, r)
  /\ jobStatus' = [jobStatus EXCEPT ![r] = "queued"]
  /\ jobTrail' = [jobTrail EXCEPT ![r] = <<"queued">>]
  /\ jobRuns' = [jobRuns EXCEPT ![r] = @ + 1]
  /\ jobTotal' = [jobTotal EXCEPT ![r] = total]
  /\ UNCHANGED <<jobCompleted, jobResults, jobError, jobResult>>

\* jobs.set(jobId, {... status: "queued" ...}) followed, in the same handler,
\* by the start of the run, whose first statement is job.status = "running".
CreateJob(r, total) ==
  /\ jobKeys' = MapSet(jobKeys, r)
  /\ jobStatus' = [jobStatus EXCEPT ![r] = "running"]
  /\ jobTrail' = [jobTrail EXCEPT ![r] = <<"queued", "running">>]
  /\ jobRuns' = [jobRuns EXCEPT ![r] = @ + 1]
  /\ jobTotal' = [jobTotal EXCEPT ![r] = total]
  /\ UNCHANGED <<jobCompleted, jobResults, jobError, jobResult>>

\* res.json({ jobId, status: "queued", message, statusUrl }) of a create handler.
Queued(op, jobId) ==
  [op |-> op, id |-> jobId, code |-> 200,
   body |-> [kind |-> "queued", jobId |-> jobId, status |-> "queued", statusUrl |-> jobId]]

\* --------------------------------- token transfers: POST /batch, executeBatch
\* Amounts are decimal strings of five decimals, counted in steps of 0.00001,
\* 1/Fine of 0.0001. Number(minStr) and Number(maxStr) (93-94) are the doubles
\* nearest to them. A draw r is a double, named in half steps: 2k is the double
\* of the amount k, and 2k + 1 stands for the doubles strictly between those
\* of the amounts k and k + 1, which toFixed(4) all renders alike.
\*
\* ReachedFrom[max + 1]: the amounts min other than max for which the greatest
\* draw, at Math.random() = 1 - 2^-52, is the double of max itself: the
\* product and the sum of line 95 are each rounded to the nearest double.
ReachedFrom ==
  <<{},
    {},
    {},
    {},
    {3, 5},
    {4, 6},
    {5, 7},
    {3, 4, 5, 6, 8, 9, 10, 11},
    {6, 7, 9, 10},
    {7, 8, 10, 11},
    {8, 9, 11, 12},
    {9, 10, 12, 13},
    {10, 11, 13, 14},
    {4, 5, 6, 9, 10, 11, 12, 14, 15, 16, 17},
    {5, 6, 7, 8, 9, 10, 11, 12, 13, 15, 16, 17, 18, 19, 20, 21, 22, 23},
    {6, 11, 12, 13, 14, 16, 17, 18, 19},
    {12, 13, 14, 15, 17, 18, 19, 20},
    {8, 9, 10, 11, 12, 13, 14, 15, 16, 18, 19, 20, 21, 22, 23, 24, 25, 26},
    {14, 15, 16, 17, 19, 20, 21, 22},
    {10, 11, 12, 13, 14, 15, 16, 17, 18, 20, 21, 22, 23, 24, 25, 26, 27, 28},
    {16, 17, 18, 19, 21, 22, 23, 24},
    {8, 12, 13, 14, 15, 16, 17, 18, 19, 20, 22, 23, 24, 25, 26, 27, 28, 29, 30},
    {18, 19, 20, 21, 23, 24, 25, 26},
    {8, 10, 14, 15, 16, 17, 18, 19, 20, 21, 22, 24, 25, 26, 27, 28, 29, 30},
    {20, 21, 22, 23, 25, 26, 27, 28},
    {7, 8, 10, 12, 13, 14, 15, 16, 17, 18, 19, 20, 21, 22, 23, 24, 26, 27, 28, 29, 30},
    {8, 10, 12, 17, 18, 19, 20, 21, 22, 23, 24, 25, 27, 28, 29, 30},
    {10, 12, 18, 19, 20, 21, 22, 23, 24, 25, 26, 28, 29, 30},
    {10, 12, 13, 14, 15, 16, 17, 18, 19, 20, 21, 22, 23, 24, 25, 26, 27, 29, 30},
    {12, 13, 14, 15, 16, 17, 18, 19, 20, 21, 22, 23, 24, 25, 26, 27, 28, 30},
    {12, 21, 22, 23, 24, 25, 26, 27, 28, 29}>>

ReachesMax(mn, mx) == (mx + 1) \in DOMAIN ReachedFrom /\ mn \in ReachedFrom[mx + 1]

\* The values `Math.random() * (max - min) + min` (95) takes, Math.random()
\* being in [0, 1): min itself at 0, then every double toward max, and max
\* itself where the rounding reaches it.
RandomDraws(mn, mx) ==
  IF mn = mx THEN {2 * mn}
  ELSE IF mn < mx
    THEN ((2 * mn)..(2 * mx - 1)) \cup (IF ReachesMax(mn, mx) THEN {2 * mx} ELSE {})
    ELSE ((2 * mx + 1)..(2 * mn)) \cup (IF ReachesMax(mn, mx) THEN {2 * mx} ELSE {})

\* The amounts halfway between two multiples of 0.0001 whose double lies below
\* the decimal: 0.00015, 0.00035, 0.00045; those of 0.00005 and 0.00025 lie above.
TiesBelow == {15, 35, 45}

\* r.toFixed(4) (96) of the draw h, in multiples of 0.0001: the multiple
\* nearest to the exact value of the double, the larger of two equally near.
ToFixed(h) ==
  IF h % 2 = 0 /\ (h \div 2) \in TiesBelow
    THEN (h - Fine) \div (2 * Fine)
    ELSE (h + Fine) \div (2 * Fine)

\* randomDecimalString(minStr, maxStr, 4): the strings it can return.
RandomDecimalString(mn, mx) == {ToFixed(r) : r \in RandomDraws(mn, mx)}

\* ethers.parseUnits(rndStr, decimals) for a token of 4 decimals: one unit
\* per 0.0001.
ParseUnits(display) == display

PostBatch(r, a, cnt, mn, mx, R, d) ==
  /\ FreshJobId(r)
  /\ mode' = [mode EXCEPT ![r] = "token"]
  /\ sender' = [sender EXCEPT ![r] = a]
  /\ count' = [count EXCEPT ![r] = cnt]
  /\ min' = [min EXCEPT ![r] = mn]
  /\ max' = [max EXCEPT ![r] = mx]
  /\ retries' = [retries EXCEPT ![r] = R]
  /\ delay' = [delay EXCEPT ![r] = d]
  /\ UNCHANGED txGiven
  /\ CreateJob(r, 0)
  /\ pc' = [pc EXCEPT ![r] = "tSetup"]
  /\ resp' = Queued("batch", r)
  /\ UNCHANGED <<planned, balance, i, c, txNumber, attempt, success, nonce, err>>
  /\ UNCHANGED <<allocVars, callerVars, deletedAt, srvVars, fsVars, fn, dataVars, obsVars>>

\* A balance check that lets a plan one unit over the balance through.
PlanExceedsLoose(sumUnits, tokenBalanceUnits) == sumUnits > tokenBalanceUnits + 1

\* `sumUnits > tokenBalanceUnits`.
PlanExceeds(sumUnits, tokenBalanceUnits) == sumUnits > tokenBalanceUnits

\* One awaited read of the setup: it throws out of the run, or the setup
\* moves on to its next await.
TokenSetupCall(r, from, to) ==
  /\ pc[r] = from
  /\ \/ /\ pc' = [pc EXCEPT ![r] = to]
        /\ UNCHANGED err
     \/ /\ pc' = [pc EXCEPT ![r] = "rejected"]
        /\ err' = [err EXCEPT ![r] = "setup"]
  /\ UNCHANGED <<planned, tries, i>>
  /\ UNCHANGED <<mode, sender, retries, delay, txGiven, min, max, count, c, txNumber, attempt, success, nonce>>
  /\ UNCHANGED <<opItem, exhausted, backoff, accepted, waitFailed, progressCalls, logWritten, logFile>>
  /\ UNCHANGED <<allocVars, callerVars, regVars, srvVars, fsVars, fn, dataVars, jobVars>>

\* provider.getBlockNumber (36).
TokenGetBlockNumber(r) == TokenSetupCall(r, "tSetup", "tGetAddress") /\ UNCHANGED balance

\* wallet.getAddress (39) and onStart.
TokenGetAddress(r) == TokenSetupCall(r, "tGetAddress", "tDecimals") /\ UNCHANGED balance

\* contract.decimals (47).
TokenDecimals(r) == TokenSetupCall(r, "tDecimals", "tBalanceOf") /\ UNCHANGED balance

\* contract.balanceOf(sender) (50): tokenBalanceUnits is what the call returned.
TokenBalanceOf(r) ==
  /\ TokenSetupCall(r, "tBalanceOf", "tGetBalance")
  /\ IF pc'[r] = "rejected"
       THEN UNCHANGED balance
       ELSE \E bal \in 0..MaxBalance : balance' = [balance EXCEPT ![r] = bal]

\* provider.getBalance(sender) (54).
TokenGetBalance(r) == TokenSetupCall(r, "tGetBalance", "tSampleGas") /\ UNCHANGED balance

\* contract.transfer.estimateGas of the sample amount (60), whose failure is
\* caught (62-64).
TokenSampleGas(r) ==
  /\ pc[r] = "tSampleGas"
  /\ pc' = [pc EXCEPT ![r] = "tPlan"]
  /\ UNCHANGED <<err, planned, balance, tries, i>>
  /\ UNCHANGED <<mode, sender, retries, delay, txGiven, min, max, count, c, txNumber, attempt, success, nonce>>
  /\ UNCHANGED <<opItem, exhausted, backoff, accepted, waitFailed, progressCalls, logWritten, logFile>>
  /\ UNCHANGED <<allocVars, callerVars, regVars, srvVars, fsVars, fn, dataVars, jobVars>>

\* provider.getFeeData (67), then the plan (77-84) and the balance check (87-89).
TokenSetup(r) ==
  /\ pc[r] = "tPlan"
  /\ \/ /\ pc' = [pc EXCEPT ![r] = "rejected"]
        /\ err' = [err EXCEPT ![r] = "setup"]
        /\ UNCHANGED <<planned, tries, i>>
     \/ \E display \in [1..count[r] -> RandomDecimalString(min[r], max[r])] :
          /\ planned' = [planned EXCEPT ![r] = [k \in 1..count[r] |-> ParseUnits(display[k])]]
          /\ tries' = [tries EXCEPT ![r] = Zeros(count[r])]
          /\ i' = [i EXCEPT ![r] = 0]
          /\ IF PlanExceeds(SumSeq([k \in 1..count[r] |-> ParseUnits(display[k])]), balance[r])
               THEN /\ pc' = [pc EXCEPT ![r] = "rejected"]
                    /\ err' = [err EXCEPT ![r] = "planning"]
               ELSE /\ pc' = [pc EXCEPT ![r] = "tLoop"]
                    /\ UNCHANGED err
  /\ UNCHANGED <<mode, sender, retries, delay, txGiven, min, max, count, balance, c, txNumber, attempt, success, nonce>>
  /\ UNCHANGED <<opItem, exhausted, backoff, accepted, waitFailed, progressCalls, logWritten, logFile>>
  /\ UNCHANGED <<allocVars, callerVars, regVars, srvVars, fsVars, fn, dataVars, jobVars>>

\* txEntry (142-150), its index and the fields read off the receipt:
\* `status: receipt?.status` is undefined when the wait gave no receipt.
TxEntry(e) ==
  [index |-> Num(e.index), status |-> IF e.confirmed THEN Num(1) ELSE Undefined]

\* A serialisation that writes an undefined member as null.
JsonStringifyNulls(list) ==
  [k \in DOMAIN list |->
     {<<f, IF list[k][f] = Undefined THEN [t |-> "null", v |-> 0] ELSE list[k][f]>> :
        f \in DOMAIN list[k]}]

\* JSON.stringify of an array of objects: the text holds, per object, its
\* members as name-value pairs; a property whose value is undefined is left out.
JsonStringify(list) ==
  [k \in DOMAIN list |->
     {<<f, list[k][f]>> : f \in {g \in DOMAIN list[k] : list[k][g] # Undefined}}]

\* JSON.parse of such a text: an object per entry, with the members of the text.
JsonParse(text) ==
  [k \in DOMAIN text |->
     [f \in {m[1] : m \in text[k]} |-> (CHOOSE m \in text[k] : m[1] = f)[2]]]

\* The name of the log file (169-170), by its timestamp in seconds: the
\* directory is the same for all runs.
LogPath(timestamp) == timestamp

\* fs.writeFileSync(logPath, text) (174): the file is created or replaced.
WriteFileSync(fs, path, text) == [fs EXCEPT ![path] = [written |-> TRUE, text |-> text]]

\* The head of `for (let i = 0; i < planned.length; ++i)`, the skip of a
\* zero amount, and past the loop the log write and the return (169-192).
TokenLoop(r) ==
  /\ pc[r] = "tLoop"
  /\ IF i[r] >= Len(planned[r])
       THEN /\ logWritten' = [logWritten EXCEPT ![r] = TRUE]
            /\ logFile' = [logFile EXCEPT ![r] =
                 JsonStringify([k \in DOMAIN results[r] |-> TxEntry(results[r][k])])]
            /\ logPath' = [logPath EXCEPT ![r] = LogPath(now)]
            /\ files' = WriteFileSync(files, LogPath(now),
                 JsonStringify([k \in DOMAIN results[r] |-> TxEntry(results[r][k])]))
            /\ summary' = [summary EXCEPT ![r] =
                 [kind |-> "token", success |-> TRUE, total |-> 0,
                  successful |-> Len(results[r]), failed |-> 0,
                  results |-> results[r], failedTransactions |-> <<>>]]
            /\ pc' = [pc EXCEPT ![r] = "resolved"]
            /\ UNCHANGED <<i, attempt, success, accepted, waitFailed>>
       ELSE IF planned[r][i[r] + 1] = 0
         THEN /\ i' = [i EXCEPT ![r] = i[r] + 1]
              /\ UNCHANGED <<pc, attempt, success, logWritten, logFile, files, logPath, summary, accepted, waitFailed>>
         ELSE /\ attempt' = [attempt EXCEPT ![r] = 0]
              /\ success' = [success EXCEPT ![r] = FALSE]
              /\ accepted' = [accepted EXCEPT ![r] = 0]
              /\ waitFailed' = [waitFailed EXCEPT ![r] = 0]
              /\ pc' = [pc EXCEPT ![r] = "tWhile"]
              /\ UNCHANGED <<i, logWritten, logFile, files, logPath, summary>>
  /\ UNCHANGED <<c, txNumber, nonce, err, results, failed>>
  /\ UNCHANGED <<tries, opItem, exhausted, backoff, progressCalls>>
  /\ UNCHANGED <<allocVars, callerVars, regVars, srvVars, now, fn, cfgVars, jobVars>>

\* `while (attempt < retries && !success)`, attempt++, and the nonce read issued.
TokenWhile(r) ==
  /\ pc[r] = "tWhile"
  /\ IF WhileContinues(attempt[r], retries[r], success[r])
       THEN /\ attempt' = [attempt EXCEPT ![r] = attempt[r] + 1]
            /\ tries' = [tries EXCEPT ![r] = Bump(tries[r], i[r] + 1)]
            /\ opItem' = [opItem EXCEPT ![r] = i[r] + 1]
            /\ pc' = [pc EXCEPT ![r] = "tNonce"]
            /\ UNCHANGED i
       ELSE /\ i' = [i EXCEPT ![r] = i[r] + 1]
            /\ pc' = [pc EXCEPT ![r] = "tLoop"]
            /\ UNCHANGED <<attempt, tries, opItem>>
  /\ UNCHANGED <<c, txNumber, success, nonce, err>>
  /\ UNCHANGED <<exhausted, backoff, accepted, waitFailed, progressCalls, logWritten, logFile>>
  /\ UNCHANGED <<allocVars, callerVars, regVars, srvVars, fsVars, fn, cfgVars, dataVars, jobVars>>

\* A catch block that, on exhaustion, gives the item up and lets the loop go on.
TokenCatchContinues(r) ==
  IF RetryExhausted(attempt[r], retries[r])
    THEN /\ exhausted' = [exhausted EXCEPT ![r] = @ \cup {i[r] + 1}]
         /\ pc' = [pc EXCEPT ![r] = "tWhile"]
         /\ UNCHANGED <<err, backoff>>
    ELSE /\ backoff' = [backoff EXCEPT ![r] = Backoff(TokenBackoffStep, TokenBackoffCap, attempt[r])]
         /\ pc' = [pc EXCEPT ![r] = "tBackoff"]
         /\ UNCHANGED <<exhausted, err>>

\* The catch block (158-165): the throw on exhaustion, else the backoff.
TokenCatch(r) ==
  IF RetryExhausted(attempt[r], retries[r])
    THEN /\ exhausted' = [exhausted EXCEPT ![r] = @ \cup {i[r] + 1}]
         /\ err' = [err EXCEPT ![r] = "exhausted"]
         /\ pc' = [pc EXCEPT ![r] = "rejected"]
         /\ UNCHANGED backoff
    ELSE /\ backoff' = [backoff EXCEPT ![r] = Backoff(TokenBackoffStep, TokenBackoffCap, attempt[r])]
         /\ pc' = [pc EXCEPT ![r] = "tBackoff"]
         /\ UNCHANGED <<exhausted, err>>

\* One awaited call of an attempt: it fails into the catch block, or the
\* attempt moves on.
TokenCall(r, from, to) ==
  /\ pc[r] = from
  /\ \/ /\ pc' = [pc EXCEPT ![r] = to]
        /\ UNCHANGED <<exhausted, backoff, err>>
     \/ TokenCatch(r)

\* provider.getTransactionCount(sender, "pending") (104).
TokenNonce(r) ==
  /\ pc[r] = "tNonce"
  /\ \/ /\ pc' = [pc EXCEPT ![r] = "tEstimate"]
        /\ nonce' = [nonce EXCEPT ![r] = netPending[sender[r]]]
        /\ UNCHANGED <<exhausted, backoff, err>>
     \/ /\ TokenCatch(r)
        /\ UNCHANGED nonce
  /\ UNCHANGED <<i, c, txNumber, attempt, success>>
  /\ UNCHANGED <<tries, opItem, accepted, waitFailed, progressCalls, logWritten, logFile>>
  /\ UNCHANGED <<allocVars, callerVars, regVars, srvVars, fsVars, fn, cfgVars, dataVars, jobVars>>

\* contract.transfer.estimateGas (108), whose failure is caught (111-113).
TokenEstimate(r) ==
  /\ pc[r] = "tEstimate"
  /\ pc' = [pc EXCEPT ![r] = "tFee"]
  /\ UNCHANGED <<exhausted, backoff, err>>
  /\ UNCHANGED <<i, c, txNumber, attempt, success, nonce>>
  /\ UNCHANGED <<tries, opItem, accepted, waitFailed, progressCalls, logWritten, logFile>>
  /\ UNCHANGED <<allocVars, callerVars, regVars, srvVars, fsVars, fn, cfgVars, dataVars, jobVars>>

\* provider.getFeeData (115).
TokenFee(r) ==
  /\ TokenCall(r, "tFee", "tSign")
  /\ UNCHANGED <<i, c, txNumber, attempt, success, nonce>>
  /\ UNCHANGED <<tries, opItem, accepted, waitFailed, progressCalls, logWritten, logFile>>
  /\ UNCHANGED <<allocVars, callerVars, regVars, srvVars, fsVars, fn, cfgVars, dataVars, jobVars>>

\* wallet.signTransaction (127).
TokenSign(r) ==
  /\ TokenCall(r, "tSign", "tSend")
  /\ UNCHANGED <<i, c, txNumber, attempt, success, nonce>>
  /\ UNCHANGED <<tries, opItem, accepted, waitFailed, progressCalls, logWritten, logFile>>
  /\ UNCHANGED <<allocVars, callerVars, regVars, srvVars, fsVars, fn, cfgVars, dataVars, jobVars>>

\* provider.broadcastTransaction (128).
TokenSend(r) ==
  /\ pc[r] = "tSend"
  /\ \/ /\ pc' = [pc EXCEPT ![r] = "tWait"]
        /\ netPending' = NetAccept(sender[r], nonce[r])
        /\ accepted' = [accepted EXCEPT ![r] = accepted[r] + 1]
        /\ UNCHANGED <<exhausted, backoff, err>>
     \/ /\ TokenCatch(r)
        /\ UNCHANGED <<netPending, accepted>>
  /\ UNCHANGED <<i, c, txNumber, attempt, success, nonce>>
  /\ UNCHANGED <<tries, opItem, waitFailed, progressCalls, logWritten, logFile>>
  /\ UNCHANGED <<nonceTracker, objNonce, objAddr, nextObj, timers, gnPc, gnAddr, gnObj, gnRet>>
  /\ UNCHANGED <<callerVars, regVars, srvVars, fsVars, fn, cfgVars, dataVars, jobVars>>

\* sent.wait(1).catch(() => null), the log entry, onProgress (131-157).
TokenWait(r) ==
  /\ pc[r] = "tWait"
  /\ \E receipt \in BOOLEAN :
       LET txEntry == [index |-> i[r] + 1, confirmed |-> receipt]
       IN /\ results' = [results EXCEPT ![r] = Append(results[r], txEntry)]
          /\ success' = [success EXCEPT ![r] = TRUE]
          /\ OnProgress(r, i[r] + 1, txEntry)
          /\ waitFailed' = [waitFailed EXCEPT ![r] = IF receipt THEN @ ELSE i[r] + 1]
  /\ pc' = [pc EXCEPT ![r] = IF delay[r] > 0 THEN "tSleep" ELSE "tWhile"]
  /\ UNCHANGED <<i, c, txNumber, attempt, nonce, err, failed, summary>>
  /\ UNCHANGED <<tries, opItem, exhausted, backoff, accepted, logWritten, logFile>>
  /\ UNCHANGED <<jobKeys, jobStatus, jobTotal, jobError, jobResult, jobTrail, jobRuns>>
  /\ UNCHANGED <<allocVars, callerVars, regVars, srvVars, fsVars, fn, cfgVars>>

\* The end of sleep(delay) or of sleep(backoff).
TokenSleep(r) ==
  /\ pc[r] \in {"tSleep", "tBackoff"}
  /\ pc' = [pc EXCEPT ![r] = "tWhile"]
  /\ backoff' = [backoff EXCEPT ![r] = 0]
  /\ UNCHANGED <<i, c, txNumber, attempt, success, nonce, err>>
  /\ UNCHANGED <<tries, opItem, exhausted, accepted, waitFailed, progressCalls, logWritten, logFile>>
  /\ UNCHANGED <<allocVars, callerVars, regVars, srvVars, fsVars, fn, cfgVars, dataVars, jobVars>>

\* executeBatch past its await (73-84).
ExecuteBatchSettle(r) ==
  /\ mode[r] = "token"
  /\ pc[r] \in {"resolved", "rejected"}
  /\ IF pc[r] = "resolved"
       THEN /\ jobStatus' = [jobStatus EXCEPT ![r] = "completed"]
            /\ jobTrail' = [jobTrail EXCEPT ![r] = Append(@, "completed")]
            /\ jobResults' = [jobResults EXCEPT ![r] = summary[r].results]
            /\ jobResult' = [jobResult EXCEPT ![r] = summary[r]]
            /\ UNCHANGED jobError
       ELSE /\ jobStatus' = [jobStatus EXCEPT ![r] = "failed"]
            /\ jobTrail' = [jobTrail EXCEPT ![r] = Append(@, "failed")]
            /\ jobError' = [jobError EXCEPT ![r] = err[r]]
            /\ UNCHANGED <<jobResults, jobResult>>
  /\ pc' = [pc EXCEPT ![r] = "done"]
  /\ UNCHANGED <<i, c, txNumber, attempt, success, nonce, err>>
  /\ UNCHANGED <<jobKeys, jobTotal, jobCompleted, jobRuns>>
  /\ UNCHANGED <<allocVars, callerVars, regVars, srvVars, fsVars, fn, cfgVars, dataVars, obsVars>>

TokenStep(r) ==
  \/ TokenGetBlockNumber(r)
  \/ TokenGetAddress(r)
  \/ TokenDecimals(r)
  \/ TokenBalanceOf(r)
  \/ TokenGetBalance(r)
  \/ TokenSampleGas(r)
  \/ TokenSetup(r)
  \/ TokenLoop(r)
  \/ TokenWhile(r)
  \/ TokenNonce(r)
  \/ TokenEstimate(r)
  \/ TokenFee(r)
  \/ TokenSign(r)
  \/ TokenSend(r)
  \/ TokenWait(r)
  \/ TokenSleep(r)
  \/ ExecuteBatchSettle(r)

\* ------------- raw batches: POST /interact/batch-send-raw, batchSendRawTransactions
\* The handler (299-366) and the run up to its first await: an empty
\* transactions array passes the handler and is thrown on by the run (354).
PostBatchSendRaw(r, a, txs, given, cnt, R, d) ==
  /\ FreshJobId(r)
  /\ mode' = [mode EXCEPT ![r] = "raw"]
  /\ sender' = [sender EXCEPT ![r] = a]
  /\ count' = [count EXCEPT ![r] = cnt]
  /\ retries' = [retries EXCEPT ![r] = R]
  /\ delay' = [delay EXCEPT ![r] = d]
  /\ txGiven' = [txGiven EXCEPT ![r] = given]
  /\ planned' = [planned EXCEPT ![r] = txs]
  /\ CreateJob(r, Len(txs) * cnt)
  /\ tries' = [tries EXCEPT ![r] = Zeros(TotalTransactions(txs))]
  /\ IF txs = <<>>
       THEN /\ pc' = [pc EXCEPT ![r] = "rejected"]
            /\ err' = [err EXCEPT ![r] = "setup"]
       ELSE /\ pc' = [pc EXCEPT ![r] = "rLoop"]
            /\ UNCHANGED err
  /\ resp' = Queued("batch-send-raw", r)
  /\ UNCHANGED <<min, max, balance, i, c, txNumber, attempt, success, nonce>>
  /\ UNCHANGED <<opItem, exhausted, backoff, accepted, waitFailed, progressCalls, logWritten, logFile>>
  /\ UNCHANGED <<allocVars, callerVars, deletedAt, srvVars, fsVars, fn, dataVars>>

\* The heads of the two for loops (369-376) and, past them, the summary (468-487).
RawLoop(r) ==
  /\ pc[r] = "rLoop"
  /\ IF i[r] >= Len(planned[r])
       THEN /\ summary' = [summary EXCEPT ![r] =
                 [kind |-> "raw", success |-> (Len(failed[r]) = 0),
                  total |-> TotalTransactions(planned[r]),
                  successful |-> Len(results[r]), failed |-> Len(failed[r]),
                  results |-> results[r], failedTransactions |-> failed[r]]]
            /\ pc' = [pc EXCEPT ![r] = "resolved"]
            /\ UNCHANGED <<i, c, txNumber, attempt, success, accepted, waitFailed>>
       ELSE IF c[r] >= CountOf(planned[r][i[r] + 1])
         THEN /\ i' = [i EXCEPT ![r] = i[r] + 1]
              /\ c' = [c EXCEPT ![r] = 0]
              /\ UNCHANGED <<pc, txNumber, attempt, success, summary, accepted, waitFailed>>
         ELSE /\ txNumber' = [txNumber EXCEPT ![r] = txNumber[r] + 1]
              /\ attempt' = [attempt EXCEPT ![r] = 0]
              /\ success' = [success EXCEPT ![r] = FALSE]
              /\ accepted' = [accepted EXCEPT ![r] = 0]
              /\ waitFailed' = [waitFailed EXCEPT ![r] = 0]
              /\ pc' = [pc EXCEPT ![r] = "rWhile"]
              /\ UNCHANGED <<i, c, summary>>
  /\ UNCHANGED <<nonce, err, results, failed>>
  /\ UNCHANGED <<tries, opItem, exhausted, backoff, progressCalls, logWritten, logFile>>
  /\ UNCHANGED <<allocVars, callerVars, regVars, srvVars, fsVars, fn, cfgVars, jobVars>>

\* `while (attempt < retries && !success)`, attempt++, getFeeData issued (378-385).
RawWhile(r) ==
  /\ pc[r] = "rWhile"
  /\ IF WhileContinues(attempt[r], retries[r], success[r])
       THEN /\ attempt' = [attempt EXCEPT ![r] = attempt[r] + 1]
            /\ tries' = [tries EXCEPT ![r] = Bump(tries[r], txNumber[r])]
            /\ pc' = [pc EXCEPT ![r] = "rFee"]
            /\ UNCHANGED c
       ELSE /\ c' = [c EXCEPT ![r] = c[r] + 1]
            /\ pc' = [pc EXCEPT ![r] = "rLoop"]
            /\ UNCHANGED <<attempt, tries>>
  /\ UNCHANGED <<i, txNumber, success, nonce, err>>
  /\ UNCHANGED <<opItem, exhausted, backoff, accepted, waitFailed, progressCalls, logWritten, logFile>>
  /\ UNCHANGED <<allocVars, callerVars, regVars, srvVars, fsVars, fn, cfgVars, dataVars, jobVars>>

\* A catch block that, on exhaustion, throws out of the run.
RawCatchThrows(r) ==
  IF RetryExhausted(attempt[r], retries[r])
    THEN /\ exhausted' = [exhausted EXCEPT ![r] = @ \cup {txNumber[r]}]
         /\ pc' = [pc EXCEPT ![r] = "rejected"]
         /\ UNCHANGED <<failed, c, backoff>>
    ELSE /\ backoff' = [backoff EXCEPT ![r] = Backoff(RawBackoffStep, RawBackoffCap, attempt[r])]
         /\ pc' = [pc EXCEPT ![r] = "rBackoff"]
         /\ UNCHANGED <<failed, exhausted, c>>

\* A catch block that leaves the item at its first failure, with no record
\* while attempts remain.
RawCatchSkips(r) ==
  IF RetryExhausted(attempt[r], retries[r])
    THEN /\ failed' = [failed EXCEPT ![r] = Append(failed[r], txNumber[r])]
         /\ exhausted' = [exhausted EXCEPT ![r] = @ \cup {txNumber[r]}]
         /\ c' = [c EXCEPT ![r] = c[r] + 1]
         /\ pc' = [pc EXCEPT ![r] = "rLoop"]
         /\ UNCHANGED backoff
    ELSE /\ c' = [c EXCEPT ![r] = c[r] + 1]
         /\ pc' = [pc EXCEPT ![r] = "rLoop"]
         /\ UNCHANGED <<failed, exhausted, backoff>>

\* The catch block (443-463): the failure record and the break on
\* exhaustion, else the backoff.
RawCatch(r) ==
  IF RetryExhausted(attempt[r], retries[r])
    THEN /\ failed' = [failed EXCEPT ![r] = Append(failed[r], txNumber[r])]
         /\ exhausted' = [exhausted EXCEPT ![r] = @ \cup {txNumber[r]}]
         /\ c' = [c EXCEPT ![r] = c[r] + 1]
         /\ pc' = [pc EXCEPT ![r] = "rLoop"]
         /\ UNCHANGED backoff
    ELSE /\ backoff' = [backoff EXCEPT ![r] = Backoff(RawBackoffStep, RawBackoffCap, attempt[r])]
         /\ pc' = [pc EXCEPT ![r] = "rBackoff"]
         /\ UNCHANGED <<failed, exhausted, c>>

\* The await that follows getNetwork: the gas estimate when tx.gasLimit is not
\* given (405-412), else wallet.sendTransaction (414).
RawAfterNetwork(given) == IF "gasLimit" \in given THEN "rSend" ELSE "rEstimate"

\* The await that follows getFeeData: getNetwork when tx.chainId is not given
\* (402), else the one that follows getNetwork.
RawAfterFee(given) == IF "chainId" \in given THEN RawAfterNetwork(given) ELSE "rNetwork"

\* One awaited call of an attempt before the send: it throws into the catch
\* block, or the attempt moves on to its next await.
RawCall(r, from, to) ==
  /\ pc[r] = from
  /\ \/ /\ pc' = [pc EXCEPT ![r] = to]
        /\ opItem' = [opItem EXCEPT ![r] = IF to = "rSend" THEN txNumber[r] ELSE @]
        /\ UNCHANGED <<failed, exhausted, backoff, c>>
     \/ /\ RawCatch(r)
        /\ UNCHANGED opItem
  /\ UNCHANGED <<i, txNumber, attempt, success, nonce, err, results, summary>>
  /\ UNCHANGED <<tries, accepted, waitFailed, progressCalls, logWritten, logFile>>
  /\ UNCHANGED <<allocVars, callerVars, regVars, srvVars, fsVars, fn, cfgVars, jobVars>>

\* provider.getFeeData (385) and the request built from it (387-403).
RawFee(r) ==
  /\ pc[r] = "rFee"
  /\ RawCall(r, "rFee", RawAfterFee(txGiven[r]))

\* provider.getNetwork (402), awaited when the transaction has no chainId.
RawNetwork(r) ==
  /\ pc[r] = "rNetwork"
  /\ RawCall(r, "rNetwork", RawAfterNetwork(txGiven[r]))

\* provider.estimateGas (407), awaited when the transaction has no gasLimit:
\* its failure is caught and the limit set to 200000n (408-411).
RawEstimate(r) ==
  /\ pc[r] = "rEstimate"
  /\ pc' = [pc EXCEPT ![r] = "rSend"]
  /\ opItem' = [opItem EXCEPT ![r] = txNumber[r]]
  /\ UNCHANGED <<failed, exhausted, backoff, c>>
  /\ UNCHANGED <<i, txNumber, attempt, success, nonce, err, results, summary>>
  /\ UNCHANGED <<tries, accepted, waitFailed, progressCalls, logWritten, logFile>>
  /\ UNCHANGED <<allocVars, callerVars, regVars, srvVars, fsVars, fn, cfgVars, jobVars>>

\* wallet.sendTransaction (414): the wallet reads the pending count, signs
\* and broadcasts.
RawSend(r) ==
  /\ pc[r] = "rSend"
  /\ \/ /\ pc' = [pc EXCEPT ![r] = "rWait"]
        /\ netPending' = NetAccept(sender[r], netPending[sender[r]])
        /\ accepted' = [accepted EXCEPT ![r] = accepted[r] + 1]
        /\ UNCHANGED <<failed, exhausted, backoff, c>>
     \/ /\ RawCatch(r)
        /\ UNCHANGED <<netPending, accepted>>
  /\ UNCHANGED <<i, txNumber, attempt, success, nonce, err, results, summary>>
  /\ UNCHANGED <<tries, opItem, waitFailed, progressCalls, logWritten, logFile>>
  /\ UNCHANGED <<nonceTracker, objNonce, objAddr, nextObj, timers, gnPc, gnAddr, gnObj, gnRet>>
  /\ UNCHANGED <<callerVars, regVars, srvVars, fsVars, fn, cfgVars, jobVars>>

\* `delay && delay > 0 && txNumber < totalTransactions`.
RawSleeps(d, n, total) == d > 0 /\ n < total

\* sent.wait() (417): a receipt, then the result, onProgress and the delay
\* (419-441); or the wait throws into the catch block.
RawWait(r) ==
  /\ pc[r] = "rWait"
  /\ \/ LET result == [index |-> txNumber[r], confirmed |-> TRUE]
        IN /\ results' = [results EXCEPT ![r] = Append(results[r], result)]
           /\ success' = [success EXCEPT ![r] = TRUE]
           /\ OnProgress(r, txNumber[r], result)
           /\ pc' = [pc EXCEPT ![r] =
                IF RawSleeps(delay[r], txNumber[r], TotalTransactions(planned[r]))
                  THEN "rSleep" ELSE "rWhile"]
           /\ UNCHANGED <<failed, exhausted, backoff, c, waitFailed>>
     \/ /\ waitFailed' = [waitFailed EXCEPT ![r] = txNumber[r]]
        /\ RawCatch(r)
        /\ UNCHANGED <<results, success, jobCompleted, jobResults, progressCalls>>
  /\ UNCHANGED <<i, txNumber, attempt, nonce, err, summary>>
  /\ UNCHANGED <<tries, opItem, accepted, logWritten, logFile>>
  /\ UNCHANGED <<jobKeys, jobStatus, jobTotal, jobError, jobResult, jobTrail, jobRuns>>
  /\ UNCHANGED <<allocVars, callerVars, regVars, srvVars, fsVars, fn, cfgVars>>

\* The end of the delay or of the backoff.
RawSleep(r) ==
  /\ pc[r] \in {"rSleep", "rBackoff"}
  /\ pc' = [pc EXCEPT ![r] = "rWhile"]
  /\ backoff' = [backoff EXCEPT ![r] = 0]
  /\ UNCHANGED <<i, c, txNumber, attempt, success, nonce, err>>
  /\ UNCHANGED <<tries, opItem, exhausted, accepted, waitFailed, progressCalls, logWritten, logFile>>
  /\ UNCHANGED <<allocVars, callerVars, regVars, srvVars, fsVars, fn, cfgVars, dataVars, jobVars>>

\* A closure that drops the record of a finished job from the registry.
BackgroundSettleEvicts(r) ==
  /\ mode[r] \in {"raw", "ethBatch", "ethSingle"}
  /\ pc[r] \in {"resolved", "rejected"}
  /\ IF pc[r] = "resolved"
       THEN /\ jobStatus' = [jobStatus EXCEPT ![r] = "completed"]
            /\ jobTrail' = [jobTrail EXCEPT ![r] = Append(@, "completed")]
            /\ jobResult' = [jobResult EXCEPT ![r] = summary[r]]
            /\ UNCHANGED jobError
       ELSE /\ jobStatus' = [jobStatus EXCEPT ![r] = "failed"]
            /\ jobTrail' = [jobTrail EXCEPT ![r] = Append(@, "failed")]
            /\ jobError' = [jobError EXCEPT ![r] = err[r]]
            /\ UNCHANGED jobResult
  /\ pc' = [pc EXCEPT ![r] = "done"]
  /\ UNCHANGED <<i, c, txNumber, attempt, success, nonce, err>>
  /\ jobKeys' = MapDelete(jobKeys, r)
  /\ UNCHANGED <<jobTotal, jobCompleted, jobResults, jobRuns>>
  /\ UNCHANGED <<allocVars, callerVars, regVars, srvVars, fsVars, fn, cfgVars, dataVars, obsVars>>

\* The background closure of the handler past its await (347-354); the
\* send-eth handler's is the same (476-483).
BackgroundSettle(r) ==
  /\ mode[r] \in {"raw", "ethBatch", "ethSingle"}
  /\ pc[r] \in {"resolved", "rejected"}
  /\ IF pc[r] = "resolved"
       THEN /\ jobStatus' = [jobStatus EXCEPT ![r] = "completed"]
            /\ jobTrail' = [jobTrail EXCEPT ![r] = Append(@, "completed")]
            /\ jobResult' = [jobResult EXCEPT ![r] = summary[r]]
            /\ UNCHANGED jobError
       ELSE /\ jobStatus' = [jobStatus EXCEPT ![r] = "failed"]
            /\ jobTrail' = [jobTrail EXCEPT ![r] = Append(@, "failed")]
            /\ jobError' = [jobError EXCEPT ![r] = err[r]]
            /\ UNCHANGED jobResult
  /\ pc' = [pc EXCEPT ![r] = "done"]
  /\ UNCHANGED <<i, c, txNumber, attempt, success, nonce, err>>
  /\ UNCHANGED <<jobKeys, jobTotal, jobCompleted, jobResults, jobRuns>>
  /\ UNCHANGED <<allocVars, callerVars, regVars, srvVars, fsVars, fn, cfgVars, dataVars, obsVars>>

RawStep(r) ==
  \/ RawNetwork(r)
  \/ RawEstimate(r)
  \/ RawLoop(r)
  \/ RawWhile(r)
  \/ RawFee(r)
  \/ RawSend(r)
  \/ RawWait(r)
  \/ RawSleep(r)

\* ---------------------------- ETH transfers: POST /interact/send-eth, sendEth
\* The handler (416-496) and sendEth up to the head of its loop; an empty
\* transactions array is answered 400 before any job is created (432-434).
\* single: no transactions array given.
PostSendEth(r, a, single, txs, R, d) ==
  IF ~single /\ txs = <<>>
    THEN /\ resp' = [op |-> "send-eth", id |-> 0, code |-> 400, body |-> ErrorBody]
         /\ UNCHANGED <<deletedAt, allocVars, callerVars, runVars, srvVars, fsVars, fn>>
    ELSE /\ FreshJobId(r)
         /\ gnPc[r] = "none"
         /\ mode' = [mode EXCEPT ![r] = IF single THEN "ethSingle" ELSE "ethBatch"]
         /\ sender' = [sender EXCEPT ![r] = a]
         /\ retries' = [retries EXCEPT ![r] = R]
         /\ delay' = [delay EXCEPT ![r] = d]
         /\ UNCHANGED txGiven
         /\ planned' = [planned EXCEPT ![r] = IF single THEN <<1>> ELSE txs]
         /\ CreateJob(r, IF single THEN 1 ELSE Len(txs))
         /\ tries' = [tries EXCEPT ![r] = Zeros(IF single THEN 1 ELSE Len(txs))]
         /\ pc' = [pc EXCEPT ![r] = IF single THEN "eWhile" ELSE "eLoop"]
         /\ resp' = Queued("send-eth", r)
         /\ UNCHANGED <<min, max, count, balance, i, c, txNumber, attempt, success, nonce, err>>
         /\ UNCHANGED <<opItem, exhausted, backoff, accepted, waitFailed, progressCalls, logWritten, logFile>>
         /\ UNCHANGED <<allocVars, callerVars, deletedAt, srvVars, fsVars, fn, dataVars>>

\* The head of `for (let i = 0; i < transactions.length; i++)` (224-227)
\* and, past the loop, releaseNonce and the summary (282-291).
EthLoop(r) ==
  /\ mode[r] = "ethBatch"
  /\ pc[r] = "eLoop"
  /\ IF i[r] >= Len(planned[r])
       THEN /\ ReleaseNonce(sender[r])
            /\ summary' = [summary EXCEPT ![r] =
                 [kind |-> "ethBatch", success |-> (Len(failed[r]) = 0),
                  total |-> Len(planned[r]),
                  successful |-> Len(results[r]), failed |-> Len(failed[r]),
                  results |-> results[r], failedTransactions |-> failed[r]]]
            /\ pc' = [pc EXCEPT ![r] = "resolved"]
            /\ UNCHANGED <<attempt, success, accepted, waitFailed>>
       ELSE /\ attempt' = [attempt EXCEPT ![r] = 0]
            /\ success' = [success EXCEPT ![r] = FALSE]
            /\ accepted' = [accepted EXCEPT ![r] = 0]
            /\ waitFailed' = [waitFailed EXCEPT ![r] = 0]
            /\ pc' = [pc EXCEPT ![r] = "eWhile"]
            /\ UNCHANGED <<timers, summary>>
  /\ UNCHANGED <<i, c, txNumber, nonce, err, results, failed>>
  /\ UNCHANGED <<tries, opItem, exhausted, backoff, progressCalls, logWritten, logFile>>
  /\ UNCHANGED <<netPending, nonceTracker, objNonce, objAddr, nextObj, gnPc, gnAddr, gnObj, gnRet>>
  /\ UNCHANGED <<callerVars, regVars, srvVars, fsVars, fn, cfgVars, jobVars>>

\* The while head of either branch (229, 296), attempt++ and the call of
\* getNextNonce (232, 299). The single branch tests `attempt < retries`
\* alone and, when the loop ends, falls off the end of the function.
EthWhile(r) ==
  /\ pc[r] = "eWhile"
  /\ IF WhileContinues(attempt[r], retries[r], mode[r] = "ethBatch" /\ success[r])
       THEN /\ attempt' = [attempt EXCEPT ![r] = attempt[r] + 1]
            /\ tries' = [tries EXCEPT ![r] = Bump(tries[r], i[r] + 1)]
            /\ GetNextNonceCall(r, sender[r])
            /\ pc' = [pc EXCEPT ![r] = "eNonce"]
            /\ UNCHANGED <<i, summary>>
       ELSE /\ IF mode[r] = "ethBatch"
                 THEN /\ i' = [i EXCEPT ![r] = i[r] + 1]
                      /\ pc' = [pc EXCEPT ![r] = "eLoop"]
                      /\ UNCHANGED summary
                 ELSE /\ summary' = [summary EXCEPT ![r] = [NoSummary EXCEPT !.kind = "undefined"]]
                      /\ pc' = [pc EXCEPT ![r] = "resolved"]
                      /\ UNCHANGED i
            /\ UNCHANGED <<attempt, tries, allocVars>>
  /\ UNCHANGED <<c, txNumber, success, nonce, err, results, failed>>
  /\ UNCHANGED <<opItem, exhausted, backoff, accepted, waitFailed, progressCalls, logWritten, logFile>>
  /\ UNCHANGED <<callerVars, regVars, srvVars, fsVars, fn, cfgVars, jobVars>>

\* The catch block of either branch (265-278, 324-332).
EthCatch(r) ==
  IF RetryExhausted(attempt[r], retries[r])
    THEN /\ exhausted' = [exhausted EXCEPT ![r] = @ \cup {i[r] + 1}]
         /\ IF mode[r] = "ethBatch"
              THEN /\ failed' = [failed EXCEPT ![r] = Append(failed[r], i[r] + 1)]
                   /\ i' = [i EXCEPT ![r] = i[r] + 1]
                   /\ pc' = [pc EXCEPT ![r] = "eLoop"]
                   /\ UNCHANGED <<err, timers>>
              ELSE /\ ReleaseNonce(sender[r])
                   /\ err' = [err EXCEPT ![r] = "exhausted"]
                   /\ pc' = [pc EXCEPT ![r] = "rejected"]
                   /\ UNCHANGED <<failed, i>>
         /\ UNCHANGED backoff
    ELSE /\ backoff' = [backoff EXCEPT ![r] = Backoff(EthBackoffStep, EthBackoffCap, attempt[r])]
         /\ pc' = [pc EXCEPT ![r] = "eBackoff"]
         /\ UNCHANGED <<exhausted, failed, i, err, timers>>

\* getNextNonce returned or threw (232, 299); getFeeData is issued.
EthNonce(r) ==
  /\ pc[r] = "eNonce"
  /\ gnPc[r] \in {"returned", "threw"}
  /\ gnPc' = [gnPc EXCEPT ![r] = "none"]
  /\ IF gnPc[r] = "returned"
       THEN /\ nonce' = [nonce EXCEPT ![r] = gnRet[r]]
            /\ pc' = [pc EXCEPT ![r] = "eFee"]
            /\ UNCHANGED <<exhausted, backoff, failed, i, err, timers>>
       ELSE /\ EthCatch(r)
            /\ UNCHANGED nonce
  /\ UNCHANGED <<c, txNumber, attempt, success, results, summary>>
  /\ UNCHANGED <<tries, opItem, accepted, waitFailed, progressCalls, logWritten, logFile>>
  /\ UNCHANGED <<netPending, nonceTracker, objNonce, objAddr, nextObj, gnAddr, gnObj, gnRet>>
  /\ UNCHANGED <<callerVars, regVars, srvVars, fsVars, fn, cfgVars, jobVars>>

\* getFeeData (233, 300); then the transaction is handed to
\* wallet.sendTransaction with the allocated nonce (236, 303).
EthFee(r) ==
  /\ pc[r] = "eFee"
  /\ \/ /\ pc' = [pc EXCEPT ![r] = "eSend"]
        /\ opItem' = [opItem EXCEPT ![r] = i[r] + 1]
        /\ UNCHANGED <<exhausted, backoff, failed, i, err, timers>>
     \/ /\ EthCatch(r)
        /\ UNCHANGED opItem
  /\ UNCHANGED <<c, txNumber, attempt, success, nonce, results, summary>>
  /\ UNCHANGED <<tries, accepted, waitFailed, progressCalls, logWritten, logFile>>
  /\ UNCHANGED <<netPending, nonceTracker, objNonce, objAddr, nextObj, gnPc, gnAddr, gnObj, gnRet>>
  /\ UNCHANGED <<callerVars, regVars, srvVars, fsVars, fn, cfgVars, jobVars>>

\* wallet.sendTransaction answered (236, 303).
EthSend(r) ==
  /\ pc[r] = "eSend"
  /\ \/ /\ pc' = [pc EXCEPT ![r] = "eWait"]
        /\ netPending' = NetAccept(sender[r], nonce[r])
        /\ accepted' = [accepted EXCEPT ![r] = accepted[r] + 1]
        /\ UNCHANGED <<exhausted, backoff, failed, i, err, timers>>
     \/ /\ EthCatch(r)
        /\ UNCHANGED <<netPending, accepted>>
  /\ UNCHANGED <<c, txNumber, attempt, success, nonce, results, summary>>
  /\ UNCHANGED <<tries, opItem, waitFailed, progressCalls, logWritten, logFile>>
  /\ UNCHANGED <<nonceTracker, objNonce, objAddr, nextObj, gnPc, gnAddr, gnObj, gnRet>>
  /\ UNCHANGED <<callerVars, regVars, srvVars, fsVars, fn, cfgVars, jobVars>>

\* `delay > 0 && i < transactions.length - 1`.
EthSleeps(d, idx, len) == d > 0 /\ idx < len - 1

\* sentTx.wait() (243, 310): a receipt, then in the batch branch the result,
\* onProgress and the delay (245-263), in the single branch releaseNonce and
\* the return (312-322); or the wait throws into the catch block.
EthWait(r) ==
  /\ pc[r] = "eWait"
  /\ \/ LET result == [index |-> i[r] + 1, confirmed |-> TRUE]
        IN IF mode[r] = "ethBatch"
             THEN /\ results' = [results EXCEPT ![r] = Append(results[r], result)]
                  /\ success' = [success EXCEPT ![r] = TRUE]
                  /\ OnProgress(r, i[r] + 1, result)
                  /\ pc' = [pc EXCEPT ![r] =
                       IF EthSleeps(delay[r], i[r], Len(planned[r]))
                         THEN "eSleep" ELSE "eWhile"]
                  /\ UNCHANGED <<summary, timers, waitFailed, exhausted, backoff, failed, i, err>>
             ELSE /\ ReleaseNonce(sender[r])
                  /\ summary' = [summary EXCEPT ![r] =
                       [kind |-> "ethSingle", success |-> TRUE, total |-> 1,
                        successful |-> 1, failed |-> 0,
                        results |-> <<result>>, failedTransactions |-> <<>>]]
                  /\ pc' = [pc EXCEPT ![r] = "resolved"]
                  /\ UNCHANGED <<results, success, jobCompleted, jobResults, progressCalls>>
                  /\ UNCHANGED <<waitFailed, exhausted, backoff, failed, i, err>>
     \/ /\ waitFailed' = [waitFailed EXCEPT ![r] = i[r] + 1]
        /\ EthCatch(r)
        /\ UNCHANGED <<results, success, summary, jobCompleted, jobResults, progressCalls>>
  /\ UNCHANGED <<c, txNumber, attempt, nonce>>
  /\ UNCHANGED <<tries, opItem, accepted, logWritten, logFile>>
  /\ UNCHANGED <<jobKeys, jobStatus, jobTotal, jobError, jobResult, jobTrail, jobRuns>>
  /\ UNCHANGED <<netPending, nonceTracker, objNonce, objAddr, nextObj, gnPc, gnAddr, gnObj, gnRet>>
  /\ UNCHANGED <<callerVars, regVars, srvVars, fsVars, fn, cfgVars>>

\* The end of the delay or of the backoff.
EthSleep(r) ==
  /\ pc[r] \in {"eSleep", "eBackoff"}
  /\ pc' = [pc EXCEPT ![r] = "eWhile"]
  /\ backoff' = [backoff EXCEPT ![r] = 0]
  /\ UNCHANGED <<i, c, txNumber, attempt, success, nonce, err>>
  /\ UNCHANGED <<tries, opItem, exhausted, accepted, waitFailed, progressCalls, logWritten, logFile>>
  /\ UNCHANGED <<allocVars, callerVars, regVars, srvVars, fsVars, fn, cfgVars, dataVars, jobVars>>

EthStep(r) ==
  \/ EthLoop(r)
  \/ EthWhile(r)
  \/ EthNonce(r)
  \/ EthFee(r)
  \/ EthSend(r)
  \/ EthWait(r)
  \/ EthSleep(r)

\* ------------------------------------------- requests on the job registry
\* The response object of GET /batch/:jobId (129-150). job.transactions is set
\* for a token job alone (the other handlers keep job.results); job.summary,
\* job.result, job.results and job.total are copied into no field.
JobStatusResponse(id) ==
  [kind |-> "job", id |-> id, status |-> jobStatus[id], completed |-> jobCompleted[id],
   transactions |-> IF mode[id] = "token"
                      THEN [defined |-> TRUE, list |-> jobResults[id]]
                      ELSE [defined |-> FALSE, list |-> <<>>],
   error |-> IF jobStatus[id] = "failed" THEN jobError[id] ELSE "none"]

\* GET /batch/:jobId (122-153): jobs.get, 404 when absent.
GetJob(id) ==
  /\ resp' = IF id \in jobs
               THEN [op |-> "get", id |-> id, code |-> 200, body |-> JobStatusResponse(id)]
               ELSE [op |-> "get", id |-> id, code |-> 404, body |-> ErrorBody]
  /\ UNCHANGED <<deletedAt, allocVars, callerVars, runVars, srvVars, fsVars, fn>>

\* A delete that answers without removing the record.
DeleteJobKeeps(id) ==
  /\ resp' = [op |-> "delete", id |-> id, code |-> IF id \in jobs THEN 200 ELSE 404,
              body |-> IF id \in jobs THEN [kind |-> "message"] ELSE ErrorBody]
  /\ deletedAt' = IF id \in jobs THEN [deletedAt EXCEPT ![id] = jobStatus[id]] ELSE deletedAt
  /\ UNCHANGED <<allocVars, callerVars, runVars, srvVars, fsVars, fn>>

\* A delete that also cancels the run of the record it removes.
DeleteJobCancels(id) ==
  /\ resp' = [op |-> "delete", id |-> id, code |-> IF id \in jobs THEN 200 ELSE 404,
              body |-> IF id \in jobs THEN [kind |-> "message"] ELSE ErrorBody]
  /\ jobKeys' = MapDelete(jobKeys, id)
  /\ deletedAt' = IF id \in jobs THEN [deletedAt EXCEPT ![id] = jobStatus[id]] ELSE deletedAt
  /\ pc' = IF id \in jobs /\ pc[id] # "done" THEN [pc EXCEPT ![id] = "cancelled"] ELSE pc
  /\ UNCHANGED <<i, c, txNumber, attempt, success, nonce, err>>
  /\ UNCHANGED <<jobStatus, jobTotal, jobCompleted, jobResults, jobError, jobResult, jobTrail, jobRuns>>
  /\ UNCHANGED <<allocVars, callerVars, cfgVars, dataVars, obsVars, srvVars, fsVars, fn>>

\* DELETE /batch/:jobId (171-179): jobs.delete, 404 when it removed nothing.
DeleteJob(id) ==
  /\ resp' = [op |-> "delete", id |-> id, code |-> IF id \in jobs THEN 200 ELSE 404,
              body |-> IF id \in jobs THEN [kind |-> "message"] ELSE ErrorBody]
  /\ jobKeys' = MapDelete(jobKeys, id)
  /\ deletedAt' = IF id \in jobs THEN [deletedAt EXCEPT ![id] = jobStatus[id]] ELSE deletedAt
  /\ UNCHANGED <<jobStatus, jobTotal, jobCompleted, jobResults, jobError, jobResult, jobTrail, jobRuns>>
  /\ UNCHANGED <<allocVars, callerVars, cfgVars, ctlVars, dataVars, obsVars, srvVars, fsVars, fn>>

\* `job.planned?.count || 0` (162): no handler and no callback assigns
\* job.planned, so the optional chain yields undefined and the entry's total 0.
PlannedCountOrZero(id) == 0

\* GET /batch (156-168): Array.from(jobs.values()), one entry per record of
\* the Map in insertion order, and their number.
ListJobs ==
  /\ resp' = [op |-> "list", id |-> 0, code |-> 200,
              body |-> [kind |-> "list",
                        jobs |-> [k \in DOMAIN jobKeys |->
                                    LET id == jobKeys[k]
                                    IN [id |-> id, status |-> jobStatus[id],
                                        completed |-> jobCompleted[id],
                                        total |-> PlannedCountOrZero(id)]],
                        total |-> Len(jobKeys)]]
  /\ UNCHANGED <<deletedAt, allocVars, callerVars, runVars, srvVars, fsVars, fn>>

\* ------------------------------ POST /interact/send-raw, sendRawTransaction
\* What a step of sendRawTransaction or sendTransaction leaves alone, besides
\* pc, err, resp, netPending and accepted.
SendFrame ==
  /\ UNCHANGED <<i, c, txNumber, attempt, success, nonce>>
  /\ UNCHANGED <<tries, opItem, exhausted, backoff, waitFailed, progressCalls, logWritten, logFile>>
  /\ UNCHANGED <<nonceTracker, objNonce, objAddr, nextObj, timers, gnPc, gnAddr, gnObj, gnRet>>
  /\ UNCHANGED <<callerVars, deletedAt, srvVars, fsVars, fn, cfgVars, dataVars, jobVars>>

\* sendRawTransaction (123-172) up to its first await, getFeeData (141), for
\* a caller of kind `caller`; given: which of chainId and gasLimit it passes.
SendRawCall(r, a, given, caller) ==
  /\ mode[r] = "none"
  /\ mode' = [mode EXCEPT ![r] = caller]
  /\ sender' = [sender EXCEPT ![r] = a]
  /\ txGiven' = [txGiven EXCEPT ![r] = given]
  /\ pc' = [pc EXCEPT ![r] = "sFee"]
  /\ UNCHANGED <<retries, delay, min, max, count, planned, balance>>
  /\ UNCHANGED <<i, c, txNumber, attempt, success, nonce, err>>
  /\ UNCHANGED <<allocVars, callerVars, regVars, srvVars, fsVars, fn, dataVars, jobVars, obsVars>>

\* The handler (274-296) up to its await of sendRawTransaction: no job record
\* is made. The route's middleware reads config.privateApiKey, which no
\* environment defines, so no behaviour of the server takes this step.
PostSendRaw(r, a, given) == SendRawCall(r, a, given, "sendRaw")

\* The command line's send-raw action (cmd/interact/index.js 40-68) up to the
\* same await.
CliSendRaw(r, a, given) ==
  /\ mode[r] = "none"
  /\ SendRawCall(r, a, given, "cliSendRaw")

\* sendRawTransaction throws: the handler's catch (293-295) answers 500 with
\* the error's message, the command line's (97-100) prints it and exits.
SendRawFails(r) ==
  /\ pc' = [pc EXCEPT ![r] = "done"]
  /\ err' = [err EXCEPT ![r] = "send-raw"]
  /\ resp' = IF mode[r] = "sendRaw"
               THEN [op |-> "send-raw", id |-> 0, code |-> 500, body |-> ErrorBody]
               ELSE resp

\* The await that follows getNetwork: the gas estimate when no gasLimit was
\* given (152-159), else wallet.sendTransaction (161).
SendRawAfterNetwork(given) == IF "gasLimit" \in given THEN "sSend" ELSE "sEstimate"

\* The await that follows getFeeData: getNetwork when no chainId was given
\* (149), else the one that follows getNetwork.
SendRawAfterFee(given) == IF "chainId" \in given THEN SendRawAfterNetwork(given) ELSE "sNetwork"

\* provider.getFeeData (141) and the request built from it (143-150).
SendRawFee(r) ==
  /\ pc[r] = "sFee"
  /\ \/ /\ pc' = [pc EXCEPT ![r] = SendRawAfterFee(txGiven[r])]
        /\ UNCHANGED <<err, resp>>
     \/ SendRawFails(r)
  /\ UNCHANGED <<netPending, accepted>>
  /\ SendFrame

\* provider.getNetwork (149), awaited when no chainId was given.
SendRawNetwork(r) ==
  /\ pc[r] = "sNetwork"
  /\ \/ /\ pc' = [pc EXCEPT ![r] = SendRawAfterNetwork(txGiven[r])]
        /\ UNCHANGED <<err, resp>>
     \/ SendRawFails(r)
  /\ UNCHANGED <<netPending, accepted>>
  /\ SendFrame

\* provider.estimateGas (154), awaited when no gasLimit was given: its
\* failure is caught and the limit set to 200000n (156-158).
SendRawEstimate(r) ==
  /\ pc[r] = "sEstimate"
  /\ pc' = [pc EXCEPT ![r] = "sSend"]
  /\ UNCHANGED <<err, resp, netPending, accepted>>
  /\ SendFrame

\* wallet.sendTransaction (161): the wallet reads the pending count, signs
\* and broadcasts.
SendRawSend(r) ==
  /\ pc[r] = "sSend"
  /\ \/ /\ pc' = [pc EXCEPT ![r] = "sWait"]
        /\ netPending' = NetAccept(sender[r], netPending[sender[r]])
        /\ accepted' = [accepted EXCEPT ![r] = accepted[r] + 1]
        /\ UNCHANGED <<err, resp>>
     \/ /\ SendRawFails(r)
        /\ UNCHANGED <<netPending, accepted>>
  /\ SendFrame

\* tx.wait() (162), the returned object (164-171) and, in the handler,
\* res.json(result) (292); the command line prints the fields (61-66).
SendRawWait(r) ==
  /\ pc[r] = "sWait"
  /\ \/ /\ pc' = [pc EXCEPT ![r] = "done"]
        /\ resp' = IF mode[r] = "sendRaw"
                     THEN [op |-> "send-raw", id |-> 0, code |-> 200,
                           body |-> [kind |-> "receipt", submitted |-> accepted[r]]]
                     ELSE resp
        /\ UNCHANGED err
     \/ SendRawFails(r)
  /\ UNCHANGED <<netPending, accepted>>
  /\ SendFrame

SendRawStep(r) ==
  \/ SendRawFee(r)
  \/ SendRawNetwork(r)
  \/ SendRawEstimate(r)
  \/ SendRawSend(r)
  \/ SendRawWait(r)

\* ----------------------------------------------------------- sendTransaction
\* sendTransaction (78-121) called with a private key, up to its first await,
\* the contract method call (110). Its one route, POST /interact/send (247),
\* is behind the same middleware as send-raw.
CallSendTransaction(r, a) ==
  /\ mode[r] = "none"
  /\ mode' = [mode EXCEPT ![r] = "sendTx"]
  /\ sender' = [sender EXCEPT ![r] = a]
  /\ pc' = [pc EXCEPT ![r] = "xSend"]
  /\ UNCHANGED <<retries, delay, txGiven, min, max, count, planned, balance>>
  /\ UNCHANGED <<i, c, txNumber, attempt, success, nonce, err>>
  /\ UNCHANGED <<allocVars, callerVars, regVars, srvVars, fsVars, fn, dataVars, jobVars, obsVars>>

\* sendTransaction throws to its caller.
SendTxFails(r) ==
  /\ pc' = [pc EXCEPT ![r] = "done"]
  /\ err' = [err EXCEPT ![r] = "send"]

\* contractInstance[method](...params, txOptions) (110): the contract runner
\* populates, signs and broadcasts the transaction.
SendTxSend(r) ==
  /\ pc[r] = "xSend"
  /\ \/ /\ pc' = [pc EXCEPT ![r] = "xWait"]
        /\ netPending' = NetAccept(sender[r], netPending[sender[r]])
        /\ accepted' = [accepted EXCEPT ![r] = accepted[r] + 1]
        /\ UNCHANGED err
     \/ /\ SendTxFails(r)
        /\ UNCHANGED <<netPending, accepted>>
  /\ UNCHANGED resp
  /\ SendFrame

\* tx.wait() (111) and the returned object (113-120).
SendTxWait(r) ==
  /\ pc[r] = "xWait"
  /\ \/ /\ pc' = [pc EXCEPT ![r] = "done"]
        /\ UNCHANGED err
     \/ SendTxFails(r)
  /\ UNCHANGED <<resp, netPending, accepted>>
  /\ SendFrame

SendTxStep(r) ==
  \/ SendTxSend(r)
  \/ SendTxWait(r)

\* ------------------------------------------------- the key middlewares
\* A middleware that lets every request through.
AuthOpen(validApiKey, key) == 0

\* apiKeyAuth (37-50) and privateApiKey (22-35): the status the middleware
\* answers with, 0 when it calls next().
Auth(validApiKey, key) ==
  IF validApiKey = NoKey THEN 500
  ELSE IF key = NoKey \/ key # validApiKey THEN 401
  ELSE 0

\* The response of a middleware that does not call next().
Reject(code) ==
  /\ resp' = [op |-> "reject", id |-> 0, code |-> code, body |-> ErrorBody]
  /\ UNCHANGED <<deletedAt, allocVars, callerVars, runVars, srvVars, fsVars, fn>>

\* A route behind apiKeyAuth: the handler runs when the middleware calls next().
ApiKeyAuth(key, handler) ==
  IF Auth(apiKey, key) = 0 THEN handler ELSE Reject(Auth(apiKey, key))

\* A route behind privateApiKey.
PrivateApiKey(key, handler) ==
  IF Auth(privateApiKey, key) = 0 THEN handler ELSE Reject(Auth(privateApiKey, key))

\* ---------------------------------------------------- specifications
Retries == 0..MaxRetries
Delays == 0..1
\* Amount bounds: zero, one step below the rendered precision, whole units.
AmountBounds == {0, 1, MaxUnits * Fine}
\* Raw batches of at most MaxItems transactions in all, repeats counted.
TxLists == {txs \in SeqsUpTo(0..MaxCount, MaxItems) : TotalTransactions(txs) <= MaxItems}
EthLists == SeqsUpTo({1}, MaxItems)
\* The optional fields a raw transaction carries, of those that decide an await.
TxFields == SUBSET {"chainId", "gasLimit"}

\* One run, of any mode.
NextRun ==
  \/ \E cnt \in 0..MaxItems, mn \in AmountBounds, mx \in AmountBounds, R \in Retries, d \in Delays :
       mn <= mx /\ PostBatch(1, 1, cnt, mn, mx, R, d)
  \/ \E txs \in TxLists, given \in TxFields, R \in Retries, d \in Delays : PostBatchSendRaw(1, 1, txs, given, 1, R, d)
  \/ \E single \in BOOLEAN, txs \in EthLists, R \in Retries, d \in Delays :
       PostSendEth(1, 1, single, txs, R, d)
  \/ TokenStep(1)
  \/ RawStep(1)
  \/ EthStep(1)
  \/ AllocStep(1)
  \/ BackgroundSettle(1)
  \/ TimerFire(1)

\* The pending counts matter to the allocator alone: a lone run starts at 0.
InitRun == Init /\ \A a \in Addrs : netPending[a] = 0

SpecRun == InitRun /\ [][NextRun]_vars

\* ETH runs side by side, sharing the allocator: one of any retry budget
\* beside one of a single attempt per transfer.
PairLists == SeqsUpTo({1}, MaxPairItems)

NextEth ==
  \/ \E a \in Addrs, single \in BOOLEAN, txs \in PairLists, R \in Retries :
       PostSendEth(1, a, single, txs, R, 0)
  \/ \E a \in Addrs, single \in BOOLEAN, txs \in PairLists :
       PostSendEth(2, a, single, txs, 1, 0)
  \/ \E r \in Procs : EthStep(r)
  \/ \E r \in Procs : AllocStep(r)
  \/ \E r \in Procs : BackgroundSettle(r)
  \/ \E a \in Addrs : TimerFire(a)

SpecEth == InitRun /\ [][NextEth]_vars

\* Jobs side by side with requests on the registry: a token or raw job of
\* any retry budget beside a raw job of a single attempt per transaction.
JobLists == SeqsUpTo({0}, MaxJobItems)
JobRetries == 1..MaxJobRetries

NextJobs ==
  \/ \E cnt \in 0..MaxJobItems, R \in JobRetries : PostBatch(1, 1, cnt, 0, MaxUnits * Fine, R, 0)
  \/ \E txs \in JobLists, R \in JobRetries : PostBatchSendRaw(1, 1, txs, {}, 1, R, 0)
  \/ \E txs \in JobLists : PostBatchSendRaw(2, 1, txs, {}, 1, 1, 0)
  \/ \E r \in Procs : TokenStep(r)
  \/ \E r \in Procs : RawStep(r)
  \/ \E r \in Procs : BackgroundSettle(r)
  \/ \E id \in Procs : GetJob(id)
  \/ \E id \in Procs : DeleteJob(id)
  \/ ListJobs

SpecJobs == InitRun /\ [][NextJobs]_vars

\* One job and the requests on its record. The run, once started, keeps
\* taking its steps: each is the end of an awaited call or timer.
RunStep(r) == TokenStep(r) \/ RawStep(r) \/ BackgroundSettle(r)

NextOneJob ==
  \/ \E cnt \in 0..MaxJobItems, R \in JobRetries, d \in Delays : PostBatch(1, 1, cnt, 0, MaxUnits * Fine, R, d)
  \/ \E txs \in JobLists, given \in TxFields, R \in JobRetries, d \in Delays : PostBatchSendRaw(1, 1, txs, given, 1, R, d)
  \/ TokenStep(1)
  \/ RawStep(1)
  \/ BackgroundSettle(1)
  \/ GetJob(1)
  \/ DeleteJob(1)

SpecOneJob == InitRun /\ [][NextOneJob]_vars /\ WF_vars(RunStep(1))

\* One token job of up to MaxFailItems items, each of amount zero or
\* MaxUnits, and requests for its status.
NextFailing ==
  \/ \E cnt \in 1..MaxFailItems, mn \in {0, MaxUnits * Fine}, R \in JobRetries :
       PostBatch(1, 1, cnt, mn, MaxUnits * Fine, R, 0)
  \/ TokenStep(1)
  \/ GetJob(1)

SpecFailing == InitRun /\ [][NextFailing]_vars

\* The HTTP interface: requests with any x-api-key header on a server started
\* in any environment of ApiEnv; one job in slot 1.
Keys == 0..MaxKey
ApiLists == SeqsUpTo({1}, MaxJobItems)

\* Environments with API_KEY set or not and PRIVATE_API_KEY set or not, and
\* with HOST and PORT left out, empty, unusable or set.
ApiEnv ==
  LET EnvValues ==
        [API_KEY : {NoKey, 1}, PRIVATE_API_KEY : {NoKey, 1},
         HOST : {"", "127.0.0.1"},
         PORT : {<<>>, <<"0">>, <<"x">>, <<"8", "0", "x">>, <<"8", "0", "8", "0">>}]
  IN {[name \in set \cup {"PRIVATE_KEY"} |-> IF name = "PRIVATE_KEY" THEN 1 ELSE values[name]] :
        set \in SUBSET {"API_KEY", "PRIVATE_API_KEY", "HOST", "PORT"}, values \in EnvValues}

InitApi ==
  /\ InitProgram
  /\ \A a \in Addrs : netPending[a] = 0
  /\ \E env \in ApiEnv : ServerKeys(env)

\* The routes (88, 299, 416, 274, 122, 156, 171), each behind its middleware.
BatchRoute(key) ==
  \E cnt \in 0..MaxJobItems, R \in JobRetries :
    ApiKeyAuth(key, PostBatch(1, 1, cnt, 0, MaxUnits * Fine, R, 0))

BatchSendRawRoute(key) ==
  \E txs \in JobLists, R \in JobRetries :
    ApiKeyAuth(key, PostBatchSendRaw(1, 1, txs, {}, 1, R, 0))

SendEthRoute(key) ==
  \E single \in BOOLEAN, txs \in ApiLists, R \in JobRetries :
    ApiKeyAuth(key, PostSendEth(1, 1, single, txs, R, 0))

SendRawRoute(key) == \E given \in TxFields : PrivateApiKey(key, PostSendRaw(2, 1, given))

GetJobRoute(key) == ApiKeyAuth(key, GetJob(1))

ListJobsRoute(key) == ApiKeyAuth(key, ListJobs)

DeleteJobRoute(key) == ApiKeyAuth(key, DeleteJob(1))

NextApi ==
  \/ \E key \in Keys : BatchRoute(key)
  \/ \E key \in Keys : BatchSendRawRoute(key)
  \/ \E key \in Keys : SendEthRoute(key)
  \/ \E key \in Keys : SendRawRoute(key)
  \/ \E key \in Keys : GetJobRoute(key)
  \/ \E key \in Keys : ListJobsRoute(key)
  \/ \E key \in Keys : DeleteJobRoute(key)
  \/ TokenStep(1)
  \/ RawStep(1)
  \/ EthStep(1)
  \/ AllocStep(1)
  \/ BackgroundSettle(1)
  \/ TimerFire(1)

SpecApi == InitApi /\ [][NextApi]_vars

\* The send functions of lib/interact.js called on their own, as the command
\* line does for sendRawTransaction: up to NProcs calls, on any address.
NextSend ==
  \/ \E r \in Procs, a \in Addrs, given \in TxFields : CliSendRaw(r, a, given)
  \/ \E r \in Procs, a \in Addrs : CallSendTransaction(r, a)
  \/ \E r \in Procs : SendRawStep(r)
  \/ \E r \in Procs : SendTxStep(r)

SpecSend == InitRun /\ [][NextSend]_vars

\* The server as the README configures it (15-21).
InitDocumented ==
  /\ InitProgram
  /\ \A a \in Addrs : netPending[a] = 0
  /\ \E env \in DocumentedEnv : ServerKeys(env)

NextDocumented ==
  \/ \E key \in Keys : BatchRoute(key)
  \/ \E key \in Keys : BatchSendRawRoute(key)
  \/ \E key \in Keys : SendEthRoute(key)
  \/ \E key \in Keys : SendRawRoute(key)
  \/ \E key \in Keys : GetJobRoute(key)
  \/ \E key \in Keys : ListJobsRoute(key)
  \/ \E key \in Keys : DeleteJobRoute(key)
  \/ TokenStep(1)
  \/ RawStep(1)
  \/ EthStep(1)
  \/ AllocStep(1)
  \/ BackgroundSettle(1)
  \/ TimerFire(1)

SpecDocumented == InitDocumented /\ [][NextDocumented]_vars

\* One run of one item with a retry budget large enough for the backoff to
\* reach its cap, in each mode.
LongRetries == 0..MaxAttempts

NextBackoff ==
  \/ \E R \in LongRetries : PostBatch(1, 1, 1, MaxUnits * Fine, MaxUnits * Fine, R, 0)
  \/ \E R \in LongRetries : PostBatchSendRaw(1, 1, <<0>>, {}, 1, R, 0)
  \/ \E single \in BOOLEAN, R \in LongRetries : PostSendEth(1, 1, single, <<1>>, R, 0)
  \/ TokenStep(1)
  \/ RawStep(1)
  \/ EthStep(1)
  \/ AllocStep(1)
  \/ BackgroundSettle(1)
  \/ TimerFire(1)

SpecBackoff == InitRun /\ [][NextBackoff]_vars

\* Two token runs of one item with the same log directory, and the clock.
Tick ==
  /\ now < MaxSecond
  /\ now' = now + 1
  /\ UNCHANGED <<allocVars, callerVars, runVars, regVars, srvVars, files, logPath, fn>>

NextLogs ==
  \/ \E r \in Procs, d \in Delays : PostBatch(r, 1, 1, MaxUnits * Fine, MaxUnits * Fine, 1, d)
  \/ \E r \in Procs : TokenStep(r)
  \/ Tick

SpecLogs == InitRun /\ [][NextLogs]_vars

\* ------------------------------------------------------ pure functions
\* `txRequest.gasLimit = 200000n` when the estimate fails.
DefaultGasLimit == 200000

\* The gasLimit of txRequest when wallet.sendTransaction is called (396-412);
\* 0 stands for an absent (falsy) tx.gasLimit or global gasLimit. The request
\* is built with the transaction's own limit, else the global one, and the
\* estimate, or the default when it fails, is then assigned whenever the
\* transaction has no limit of its own.
GasLimitOf(txGasLimit, gasLimit, estimateOk, estimated) ==
  LET requested == IF txGasLimit # 0 THEN txGasLimit ELSE gasLimit
  IN IF txGasLimit = 0
       THEN IF estimateOk THEN estimated ELSE DefaultGasLimit
       ELSE requested

ApplyGasLimit(txGasLimit, gasLimit, estimateOk, estimated) ==
  /\ fn' = [name |-> "gasLimit",
            args |-> [txGasLimit |-> txGasLimit, gasLimit |-> gasLimit,
                      estimateOk |-> estimateOk, estimated |-> estimated],
            value |-> GasLimitOf(txGasLimit, gasLimit, estimateOk, estimated)]
  /\ UNCHANGED <<allocVars, callerVars, runVars, regVars, srvVars, fsVars>>

\* The bounds of a token transfer's gas limit, the margin added to an estimate
\* and the estimate assumed when the start-of-run estimation fails.
MinTokenGas == 80000
MaxTokenGas == 250000
GasMargin == 2000
DefaultTokenGas == 120000

Max(a, b) == IF a > b THEN a ELSE b

\* A clamp that has no upper bound.
ClampGasOpen(gas) == Max(gas + GasMargin, MinTokenGas)

\* `Math.min(Math.max(gas + 2000, 80000), 250000)` (109-112).
ClampGas(gas) == Min(Max(gas + GasMargin, MinTokenGas), MaxTokenGas)

\* estimatedGasPerTx (57-64): the start-of-run estimate, 120000 when it fails.
EstimatedGasPerTx(startOk, startEstimate) ==
  IF startOk THEN startEstimate ELSE DefaultTokenGas

\* The gasLimit of a token transfer's txRequest (106-122).
TokenGasLimit(startOk, startEstimate, itemOk, estimate) ==
  IF itemOk THEN ClampGas(estimate)
  ELSE ClampGas(EstimatedGasPerTx(startOk, startEstimate))

ApplyTokenGasLimit(startOk, startEstimate, itemOk, estimate) ==
  /\ fn' = [name |-> "tokenGasLimit",
            args |-> [startOk |-> startOk, startEstimate |-> startEstimate,
                      itemOk |-> itemOk, estimate |-> estimate],
            value |-> TokenGasLimit(startOk, startEstimate, itemOk, estimate)]
  /\ UNCHANGED <<allocVars, callerVars, runVars, regVars, srvVars, fsVars>>

\* Estimates the network can return: none, around each bound less the margin,
\* the default, and far above the upper bound.
GasEstimates ==
  {0, 21000, MinTokenGas - GasMargin - 1, MinTokenGas - GasMargin, MinTokenGas - GasMargin + 1,
   DefaultTokenGas, MaxTokenGas - GasMargin - 1, MaxTokenGas - GasMargin,
   MaxTokenGas - GasMargin + 1, MaxTokenGas, 4 * MaxTokenGas}

ApplyRandomDecimalString(mn, mx) ==
  /\ \E v \in RandomDecimalString(mn, mx) :
       fn' = [name |-> "randomDecimalString", args |-> [min |-> mn, max |-> mx], value |-> v]
  /\ UNCHANGED <<allocVars, callerVars, runVars, regVars, srvVars, fsVars>>

\* Amounts of up to MaxUnits + 1 units, in steps of 1/Fine of 0.0001.
FineAmounts == 0..((MaxUnits + 1) * Fine)

NextFn ==
  \/ \E mn \in FineAmounts, mx \in FineAmounts : mn <= mx /\ ApplyRandomDecimalString(mn, mx)
  \/ \E t \in 0..MaxGas, g \in 0..MaxGas, ok \in BOOLEAN, e \in 1..MaxGas : ApplyGasLimit(t, g, ok, e)
  \/ \E startOk \in BOOLEAN, s \in GasEstimates, itemOk \in BOOLEAN, e \in GasEstimates :
       ApplyTokenGasLimit(startOk, s, itemOk, e)

SpecFn == InitRun /\ [][NextFn]_vars

\* ------------------------------------------------ claims on the allocator
\* The calls of the log all ended well and were all for address a.
LogAllOkFor(a) ==
  \A k \in DOMAIN allocLog : allocLog[k].ok /\ allocLog[k].a = a

LogNonces == {allocLog[k].n : k \in DOMAIN allocLog}

NoCallInFlight == \A p \in Procs : gnPc[p] = "none"

\* C1: N allocations issued concurrently for one address, starting with no
\* lease and a pending count of base, return exactly base .. base+N-1: no
\* value twice, no value skipped.
C1_ConcurrentAllocationsExact ==
  \A a \in Addrs :
    (/\ ~lateInvoke /\ ~leaseDeleted /\ NoCallInFlight
     /\ Len(allocLog) >= 2 /\ LogAllOkFor(a))
    => /\ LogNonces = netPending[a] .. (netPending[a] + Len(allocLog) - 1)
       /\ Cardinality(LogNonces) = Len(allocLog)

\* C2: sequential calls on one address while its lease exists: the k-th call
\* returns the pending count plus k-1, and only the first queries the network.
C2_SequentialAllocationsCount ==
  \A a \in Addrs :
    (~overlap /\ ~leaseDeleted /\ LogAllOkFor(a))
    => \A k \in DOMAIN allocLog :
         /\ allocLog[k].n = netPending[a] + k - 1
         /\ allocLog[k].net = (k = 1)

\* ------------------------------------------------------ claims on the runs
\* The run holds a transaction it handed to wallet.sendTransaction.
InWallet(r) ==
  /\ mode[r] \in {"ethBatch", "ethSingle"}
  /\ pc[r] \in {"eSend", "eWait"}

\* C3: send-eth runs of one sender, side by side, never have two
\* transactions with the same nonce in the wallet's hands.
C3_ConcurrentRunsDistinctNonces ==
  \A r1, r2 \in Procs :
    (r1 # r2 /\ sender[r1] = sender[r2] /\ InWallet(r1) /\ InWallet(r2))
    => nonce[r1] # nonce[r2]

\* The run returned a batch summary.
Returned(r) == summary[r].kind \in {"token", "raw", "ethBatch"}

\* C4: the summary a raw or ETH batch run returns has
\* successful + failed = total, whatever the retries value.
C4_SummaryAddsUp ==
  \A r \in Procs :
    summary[r].kind \in {"raw", "ethBatch"}
    => summary[r].successful + summary[r].failed = summary[r].total

\* The entries recorded for item k: in the results and in the failure list.
ResultsOf(r, k) == {j \in DOMAIN results[r] : results[r][j].index = k}
FailuresOf(r, k) == {j \in DOMAIN failed[r] : failed[r][j] = k}

\* C5: when a run completes, every planned item has exactly one recorded
\* outcome, a result or a failure record.
C5_OneOutcomePerItem ==
  \A r \in Procs :
    (mode[r] \in {"token", "raw", "ethBatch"} /\ jobStatus[r] = "completed")
    => \A k \in DOMAIN tries[r] :
         Cardinality(ResultsOf(r, k)) + Cardinality(FailuresOf(r, k)) = 1

\* C6: no item is attempted more than retries times; an item marked failed,
\* or whose exhaustion aborted the run, was attempted exactly retries times;
\* and so was every item a returned run attempted and left without a result.
C6_RetryBudgetExact ==
  \A r \in Procs :
    /\ \A k \in DOMAIN tries[r] : tries[r][k] <= retries[r]
    /\ \A k \in exhausted[r] : tries[r][k] = retries[r]
    /\ \A k \in Range(failed[r]) : tries[r][k] = retries[r]
    /\ err[r] = "exhausted" => exhausted[r] # {}
    /\ Returned(r)
       => \A k \in DOMAIN tries[r] :
            (ResultsOf(r, k) = {} /\ ~(mode[r] = "token" /\ planned[r][k] = 0))
            => tries[r][k] = retries[r]

\* A run of two or more attempts per item had an item run out of them.
C6_Witness ==
  \E r \in Procs :
    /\ retries[r] >= 2
    /\ \E k \in exhausted[r] : tries[r][k] = retries[r]
    /\ pc[r] = "done"

\* C7: a token run in which an item exhausted its retries is rejected and
\* its job fails, never completes; nothing is submitted for a later item.
C7_TokenExhaustionAborts ==
  \A r \in Procs :
    (mode[r] = "token" /\ exhausted[r] # {})
    => /\ pc[r] \in {"rejected", "done"}
       /\ jobStatus[r] # "completed"
       /\ pc[r] = "done" => jobStatus[r] = "failed"
       /\ summary[r].kind = "none"
       /\ ~logWritten[r]
       /\ \A k \in exhausted[r] :
            /\ opItem[r] <= k
            /\ \A j \in DOMAIN tries[r] : j > k => tries[r][j] = 0
            /\ \A j \in DOMAIN results[r] : results[r][j].index < k

\* A token job failed on the exhaustion of an item that had a later,
\* non-zero item planned after it.
C7_Witness ==
  \E r \in Procs :
    /\ mode[r] = "token"
    /\ pc[r] = "done"
    /\ jobStatus[r] = "failed"
    /\ \E k \in exhausted[r] : k < Len(planned[r]) /\ planned[r][k + 1] > 0

\* C8: in a raw or ETH batch an exhausted item is in the failure list, the
\* run is not rejected, every item of a returned run was attempted, the
\* summary lists the failures and the job completes.
C8_BatchFailureContinues ==
  \A r \in Procs :
    (mode[r] \in {"raw", "ethBatch"} /\ exhausted[r] # {})
    => /\ exhausted[r] \subseteq Range(failed[r])
       /\ pc[r] # "rejected"
       /\ jobStatus[r] # "failed"
       /\ Returned(r)
          => /\ summary[r].failedTransactions = failed[r]
             /\ summary[r].failed = Len(failed[r])
             /\ summary[r].success = FALSE
             /\ \A k \in DOMAIN tries[r] : tries[r][k] >= 1
       /\ pc[r] = "done"
          => /\ jobStatus[r] = "completed"
             /\ jobResult[r] = summary[r]

\* A batch job completed with its first item failed and its second sent.
C8_Witness ==
  \E r \in Procs :
    /\ mode[r] \in {"raw", "ethBatch"}
    /\ pc[r] = "done"
    /\ 1 \in exhausted[r]
    /\ ResultsOf(r, 2) # {}
    /\ summary[r].total = 2 /\ summary[r].successful = 1 /\ summary[r].failed = 1

\* C9: a token run whose planned total exceeds the balance is rejected with
\* the planning error: no nonce read, signature or broadcast, no progress
\* callback, no log file, and the job fails.
C9_PlanningErrorBeforeSubmission ==
  \A r \in Procs :
    (mode[r] = "token" /\ SumSeq(planned[r]) > balance[r])
    => /\ pc[r] \in {"rejected", "done"}
       /\ err[r] = "planning"
       /\ opItem[r] = 0
       /\ \A k \in DOMAIN tries[r] : tries[r][k] = 0
       /\ results[r] = <<>>
       /\ progressCalls[r] = 0
       /\ ~logWritten[r]
       /\ jobStatus[r] # "completed"
       /\ pc[r] = "done" => (jobStatus[r] = "failed" /\ jobError[r] = "planning")

\* A token job failed on a plan one unit over the balance.
C9_Witness ==
  \E r \in Procs :
    /\ mode[r] = "token"
    /\ SumSeq(planned[r]) = balance[r] + 1
    /\ pc[r] = "done"
    /\ jobError[r] = "planning"

\* C10: in every mode, an item whose confirmation wait failed after its
\* broadcast was accepted has a result without confirmation, is not
\* broadcast again and has no failure record.
C10_WaitFailureCountsAsSuccess ==
  \A r \in Procs :
    waitFailed[r] # 0
    => /\ \E j \in ResultsOf(r, waitFailed[r]) : ~results[r][j].confirmed
       /\ FailuresOf(r, waitFailed[r]) = {}
       /\ accepted[r] = 1
       /\ success[r]

\* C11: a delay sleep is never entered after the last item of a run, in any
\* mode.
C11_NoDelayAfterLastItem ==
  \A r \in Procs :
    /\ pc[r] = "tSleep" => i[r] + 1 < Len(planned[r])
    /\ pc[r] = "rSleep" => txNumber[r] < TotalTransactions(planned[r])
    /\ pc[r] = "eSleep" => i[r] + 1 < Len(planned[r])

\* ------------------------------------------------ claims on the registry
\* The id was created and not since deleted.
Live(id) == jobRuns[id] > 0 /\ deletedAt[id] = "none"

Lifecycles ==
  {<<>>, <<"queued", "running">>, <<"queued", "running", "completed">>,
   <<"queued", "running", "failed">>}

\* C12: the values assigned to a job's status are queued, running and then
\* one of completed and failed, in that order and once each; the status is
\* the last of them.
C12_StatusLifecycle ==
  \A r \in Procs :
    /\ jobTrail[r] \in Lifecycles
    /\ jobTrail[r] # <<>> => jobStatus[r] = jobTrail[r][Len(jobTrail[r])]
    /\ jobTrail[r] = <<>> => jobStatus[r] = "none"

\* One job completed and another failed.
C12_Witness ==
  \E r1, r2 \in Procs :
    /\ jobTrail[r1] = <<"queued", "running", "completed">>
    /\ jobTrail[r2] = <<"queued", "running", "failed">>

\* C13: get(id) answers 200 exactly for an id created and not since
\* deleted; delete(id) answers 200 and removes exactly that record when it is
\* there, and answers 404 and leaves the registry as it is when it is not.
C13_RegistryGetDelete ==
  [][\A id \in Procs :
       /\ GetJob(id) => (resp'.code = 200 <=> Live(id))
       /\ DeleteJob(id)
          => IF Live(id)
               THEN resp'.code = 200 /\ jobs' = jobs \ {id} /\ id \in jobs /\ ~Live(id)'
               ELSE resp'.code = 404 /\ jobs' = jobs]_vars

\* A second delete of an id was answered not-found.
C13_Witness ==
  \E id \in Procs :
    /\ resp.op = "delete" /\ resp.id = id /\ resp.code = 404
    /\ deletedAt[id] # "none"

\* C14: a record created and not deleted is in the registry, whatever its
\* run's outcome and whatever happened to other records.
C14_NoAutomaticRemoval ==
  \A id \in Procs : Live(id) => id \in jobs

\* A finished job is still in the registry after another was deleted.
C14_Witness ==
  \E id, other \in Procs :
    /\ id # other
    /\ pc[id] = "done" /\ jobStatus[id] \in {"completed", "failed"}
    /\ id \in jobs
    /\ deletedAt[other] # "none"

\* C15: a deleted record never returns to the registry, and the run of a
\* job deleted while running still reaches its terminal outcome.
C15_DeleteDoesNotStopRun ==
  /\ [](\A id \in Procs : deletedAt[id] # "none" => id \notin jobs)
  /\ \A id \in Procs :
       (deletedAt[id] = "running" /\ pc[id] # "done")
       ~> (pc[id] = "done" /\ jobStatus[id] \in {"completed", "failed"})

\* A job deleted while running went on to record a result and complete.
C15_Witness ==
  \E id \in Procs :
    /\ deletedAt[id] = "running"
    /\ pc[id] = "done"
    /\ jobStatus[id] = "completed"
    /\ results[id] # <<>>
    /\ id \notin jobs

\* C16: one run at most is started for a job id, and exactly one for every
\* id that was created.
C16_OneRunPerJob ==
  \A id \in Procs :
    /\ jobRuns[id] <= 1
    /\ id \in jobs => jobRuns[id] = 1
    /\ mode[id] # "none" <=> jobRuns[id] = 1
    /\ Len(jobTrail[id]) <= 3

\* Two jobs were created, requests were served, and each id had one run.
C16_Witness ==
  /\ \A id \in Procs : id <= 2 => (jobRuns[id] = 1 /\ pc[id] = "done")
  /\ resp.op = "get"
  /\ \E id \in Procs : deletedAt[id] # "none"

\* ------------------------------------------- more claims on the runs
\* C17: a completed job carries a defined result and a failed job carries
\* an error.
C17_TerminalCarriesResultOrError ==
  \A r \in Procs :
    /\ jobStatus[r] = "completed" => jobResult[r].kind \notin {"none", "undefined"}
    /\ jobStatus[r] = "failed" => jobError[r] # "none"

\* C18: when a batch job is completed, one progress callback was fired per
\* planned item, and in raw and ETH batches the job's completed counter
\* equals its total.
C18_ProgressPerItem ==
  \A r \in Procs :
    (mode[r] \in {"token", "raw", "ethBatch"} /\ jobStatus[r] = "completed")
    => /\ progressCalls[r] = Len(tries[r])
       /\ mode[r] \in {"raw", "ethBatch"} => jobCompleted[r] = jobTotal[r]

\* Item k reached its terminal outcome: a result, a failure record, the
\* exhaustion that aborted the run, or the skip of a zero amount.
Settled(r, k) ==
  \/ Cardinality(ResultsOf(r, k)) + Cardinality(FailuresOf(r, k)) = 1
  \/ k \in exhausted[r]
  \/ mode[r] = "token" /\ planned[r][k] = 0

\* C19: within a run an item is first attempted only after every earlier
\* item reached its terminal outcome, and at most one attempted item is
\* without its outcome.
C19_OneItemAtATime ==
  \A r \in Procs :
    /\ \A k \in DOMAIN tries[r] :
         tries[r][k] >= 1 => \A j \in 1..(k - 1) : Settled(r, j)
    /\ Cardinality({k \in DOMAIN tries[r] : tries[r][k] >= 1 /\ ~Settled(r, k)}) <= 1

\* The second item's broadcast is in flight.
C19_Witness ==
  \E r \in Procs :
    /\ Len(tries[r]) >= 2
    /\ tries[r][2] >= 1
    /\ pc[r] \in {"tSend", "rSend", "eSend"}
    /\ Settled(r, 1) /\ ~Settled(r, 2)

\* ------------------------------------------- more claims on the allocator
\* C20: an allocation waits only on its own network read or on the lease
\* of its own address, and a step of an allocation for one address leaves
\* the lease and the counters of every other address as they were.
C20_AddressesIndependent ==
  /\ [](\A p \in Procs :
          /\ gnPc[p] = "awaitNet" => gnObj[p] = NoLease
          /\ gnPc[p] = "awaitPromise"
             => gnObj[p] # NoLease /\ objAddr[gnObj[p]] = gnAddr[p])
  /\ [][\A p \in Procs :
          gnPc'[p] # gnPc[p]
          => \A b \in Addrs \ {gnAddr'[p]} :
               /\ nonceTracker'[b] = nonceTracker[b]
               /\ \A o \in 1..MaxObj :
                    (o < nextObj /\ objAddr[o] = b) => objNonce'[o] = objNonce[o]]_vars

\* An allocation of one address waits on its lease while the network read
\* of another address is pending.
C20_Witness ==
  \E p, q \in Procs :
    /\ gnAddr[p] # gnAddr[q]
    /\ gnPc[p] = "awaitNet"
    /\ gnPc[q] = "awaitPromise"

\* ------------------------------------------- claims on the planner and the log
\* C23: for min <= max, every value randomDecimalString(min, max, 4) returns
\* lies between min and max.
C23_RandomValueWithinBounds ==
  (fn.name = "randomDecimalString" /\ fn.args.min <= fn.args.max)
  => /\ fn.args.min <= fn.value * Fine
     /\ fn.value * Fine <= fn.args.max

\* No call of the run failed: one attempt at most per item, every receipt came.
Healthy(r) ==
  /\ err[r] = "none"
  /\ exhausted[r] = {}
  /\ \A k \in DOMAIN tries[r] : tries[r][k] <= 1
  /\ \A k \in DOMAIN results[r] : results[r][k].confirmed

\* C24: a token batch with min == max plans count amounts, each equal to the
\* bound, and against a healthy network ends with count log entries.
C24_EqualBoundsAllSucceed ==
  \A r \in Procs :
    (/\ mode[r] = "token" /\ pc[r] \in {"resolved", "done"}
     /\ min[r] = max[r] /\ retries[r] >= 1 /\ Healthy(r))
    => /\ Len(planned[r]) = count[r]
       /\ \A k \in DOMAIN planned[r] : planned[r][k] * Fine = min[r]
       /\ Len(results[r]) = count[r]
       /\ Len(summary[r].results) = count[r]

\* `entry.name` as a reader of an entry sees it: undefined when the object
\* has no such member.
Property(entry, name) == IF name \in DOMAIN entry THEN entry[name] ELSE Undefined
ResultEntries(r) == [k \in DOMAIN results[r] |-> TxEntry(results[r][k])]
ReadBack(r) == JsonParse(files[logPath[r]].text)

\* C25: once a token run has written its log, the file at the returned
\* logPath read back holds as many entries as the result list, in the same
\* order, and each field of an entry reads the same from the file as from
\* the result list.
C25_LogReadBackEqualsResult ==
  \A r \in Procs :
    logWritten[r]
    => /\ files[logPath[r]].written
       /\ DOMAIN ReadBack(r) = DOMAIN ResultEntries(r)
       /\ \A k \in DOMAIN ResultEntries(r) :
            \A name \in DOMAIN ResultEntries(r)[k] \cup DOMAIN ReadBack(r)[k] :
              Property(ReadBack(r)[k], name) = Property(ResultEntries(r)[k], name)

\* A written log of two entries, one confirmed and one whose confirmation
\* wait failed.
C25_Witness ==
  \E r \in Procs :
    /\ logWritten[r]
    /\ Len(results[r]) = 2
    /\ \E j, k \in DOMAIN results[r] : results[r][j].confirmed /\ ~results[r][k].confirmed

\* C26: the gas limit is the transaction's own, else the global one, else the
\* estimate, else the default.
C26_GasLimitPrecedence ==
  fn.name = "gasLimit"
  => fn.value =
       IF fn.args.txGasLimit # 0 THEN fn.args.txGasLimit
       ELSE IF fn.args.gasLimit # 0 THEN fn.args.gasLimit
       ELSE IF fn.args.estimateOk THEN fn.args.estimated
       ELSE DefaultGasLimit

\* ------------------------------------------------ claims on the lease
\* The run is between its first allocation and its end: it awaits the
\* network or a timer and may allocate again for address a.
InProgress(r, a) ==
  /\ mode[r] \in {"ethBatch", "ethSingle"}
  /\ sender[r] = a
  /\ pc[r] \in {"eFee", "eSend", "eWait", "eSleep", "eBackoff"}

\* C27: a lease is removed only once the address has been idle for the
\* quiescence window: never while a run is still allocating nonces for it.
C27_LeaseOutlivesUse ==
  [][\A a \in Addrs :
       (TimerFire(a) /\ nonceTracker[a] # NoLease)
       => ~\E r \in Procs : InProgress(r, a)]_vars

\* C28: a failed network read of the first allocation throws to its caller
\* alone and leaves every lease and every other call as it was; a call that
\* finds no lease reads the network.
C28_FailedReadLeavesNoLease ==
  /\ [](\A p \in Procs : gnPc[p] = "threw" => gnObj[p] = NoLease)
  /\ [][\A p \in Procs :
          (gnPc[p] = "awaitNet" /\ gnPc'[p] = "threw")
          => /\ nonceTracker' = nonceTracker
             /\ objNonce' = objNonce
             /\ \A q \in Procs \ {p} :
                  gnPc'[q] = gnPc[q] /\ gnRet'[q] = gnRet[q] /\ gnObj'[q] = gnObj[q]]_vars
  /\ [][\A q \in Procs :
          (gnPc[q] = "none" /\ gnPc'[q] # "none" /\ nonceTracker[gnAddr'[q]] = NoLease)
          => gnPc'[q] = "awaitNet"]_vars

\* A first read failed, no lease exists for its address, and a call invoked
\* after a call had ended is reading the network for the address.
C28_Witness ==
  \E p \in Procs : \E q \in Procs \ {p} :
    /\ gnPc[p] = "threw"
    /\ nonceTracker[gnAddr[p]] = NoLease
    /\ lateInvoke
    /\ gnPc[q] = "awaitNet" /\ gnAddr[q] = gnAddr[p]

\* ------------------------------------------------ claims on the HTTP interface
\* The header is missing or differs from the configured key, or no key is
\* configured.
BadKey(validApiKey, key) ==
  validApiKey = NoKey \/ key = NoKey \/ key # validApiKey

\* The request was answered 401, or 500 with no key configured, and nothing
\* but the response changed: no job, no run, no record read or removed.
Refused(validApiKey) ==
  /\ resp'.op = "reject"
  /\ resp'.code = IF validApiKey = NoKey THEN 500 ELSE 401
  /\ UNCHANGED <<deletedAt, allocVars, callerVars, runVars, srvVars, fsVars, fn>>

\* C21: a request to a route other than /health whose x-api-key is missing or
\* wrong is refused and has no effect.
C21_BadKeyHasNoEffect ==
  [][/\ \/ Refused(apiKey)
        \/ \A key \in Keys :
             BadKey(apiKey, key)
             => ~(\/ BatchRoute(key) \/ BatchSendRawRoute(key) \/ SendEthRoute(key)
                  \/ GetJobRoute(key) \/ ListJobsRoute(key) \/ DeleteJobRoute(key))
     /\ \/ Refused(privateApiKey)
        \/ \A key \in Keys : BadKey(privateApiKey, key) => ~SendRawRoute(key)]_vars

\* A request was refused with 401 while the job of an accepted request runs.
C21_Witness ==
  /\ resp.op = "reject" /\ resp.code = 401
  /\ 1 \in jobs /\ jobStatus[1] = "running"

\* The endpoints that send transactions.
MutatingOps == {"batch", "batch-send-raw", "send-eth", "send-raw"}

\* The response {jobId, status: "queued", statusUrl} of a mutating endpoint.
AnsweredQueued(response) ==
  /\ response.op \in MutatingOps
  /\ response.code = 200
  /\ response.body.kind = "queued"
  /\ response.body.status = "queued"
  /\ response.body.statusUrl = response.body.jobId

\* C22: every mutating endpoint answers {jobId, status: "queued", statusUrl}
\* at once, before any transaction is submitted: a request to one of them that
\* presents the configured key is answered so in the step that receives it.
C22_MutatingEndpointsAnswerQueued ==
  [][\/ apiKey = NoKey
     \/ AnsweredQueued(resp')
     \/ ~(\/ BatchRoute(apiKey) \/ BatchSendRawRoute(apiKey) \/ SendEthRoute(apiKey)
          \/ SendRawRoute(apiKey))]_vars

\* The run summary a job status response carries, NoSummary when it has no
\* field for it.
SummaryIn(body) ==
  IF "summary" \in DOMAIN body THEN body.summary
  ELSE IF "result" \in DOMAIN body THEN body.result
  ELSE NoSummary

\* C29: the status response of a completed batch-send-raw or batch send-eth
\* job exposes the run's summary.
C29_StatusExposesSummary ==
  (/\ resp.op = "get" /\ resp.code = 200
   /\ mode[resp.id] \in {"raw", "ethBatch"}
   /\ resp.body.status = "completed")
  => /\ SummaryIn(resp.body) = jobResult[resp.id]
     /\ SummaryIn(resp.body).kind = mode[resp.id]

\* The number of transactions a job was created for.
PlannedTransactions(id) ==
  IF mode[id] = "token" THEN count[id]
  ELSE IF mode[id] = "raw" THEN TotalTransactions(planned[id])
  ELSE Len(planned[id])

\* C30: GET /batch lists every job of the registry once, each with its number
\* of planned transactions as total, and the number of jobs as the top total.
C30_ListTotals ==
  /\ [](resp.op = "list"
        => /\ resp.body.total = Len(resp.body.jobs)
           /\ \A k \in DOMAIN resp.body.jobs :
                resp.body.jobs[k].total = PlannedTransactions(resp.body.jobs[k].id))
  /\ [][\A key \in Keys :
          (ListJobsRoute(key) /\ ~BadKey(apiKey, key))
          => /\ {resp'.body.jobs[k].id : k \in DOMAIN resp'.body.jobs} = jobs
             /\ Len(resp'.body.jobs) = Cardinality(jobs)]_vars

\* ------------------------------------- claims on the documented configuration
\* C31: on a server configured as documented, a request that presents the
\* configured API key passes the key gate of every gated route.
C31_ConfiguredKeyPasses ==
  [][\/ resp'.op # "reject"
     \/ ~(\/ BatchRoute(apiKey) \/ BatchSendRawRoute(apiKey) \/ SendEthRoute(apiKey)
          \/ SendRawRoute(apiKey) \/ GetJobRoute(apiKey) \/ ListJobsRoute(apiKey)
          \/ DeleteJobRoute(apiKey))]_vars

\* ----------------------------------------------------- claims on the backoff
BackingOff(r) == pc[r] \in {"tBackoff", "rBackoff", "eBackoff"}

StepOf(r) == IF mode[r] \in {"ethBatch", "ethSingle"} THEN 2000 ELSE 5000

CapOf(r) == IF mode[r] \in {"ethBatch", "ethSingle"} THEN 10000 ELSE 30000

\* C32: the wait after failed attempt a, below the retry budget, is
\* min(a * step, cap): it never exceeds cap, is no shorter than the wait after
\* any earlier attempt, and no wait follows the last allowed attempt.
C32_BackoffWait ==
  \A r \in Procs :
    BackingOff(r)
    => /\ attempt[r] >= 1 /\ attempt[r] < retries[r]
       /\ backoff[r] = IF attempt[r] * StepOf(r) < CapOf(r)
                         THEN attempt[r] * StepOf(r) ELSE CapOf(r)
       /\ backoff[r] <= CapOf(r)
       /\ \A a \in 1..attempt[r] :
            (IF a * StepOf(r) < CapOf(r) THEN a * StepOf(r) ELSE CapOf(r)) <= backoff[r]

\* A token run waits at the cap after a failed attempt whose multiple of the
\* step is above it.
C32_Witness ==
  \E r \in Procs :
    /\ BackingOff(r)
    /\ mode[r] = "token"
    /\ backoff[r] = CapOf(r)
    /\ attempt[r] * StepOf(r) > CapOf(r)

\* ------------------------------------------- claims on broadcasts and nonces
\* C33: within a run, the network accepts at most one broadcast for an item:
\* once one was accepted, no later attempt sends the item again.
C33_NoItemBroadcastTwice ==
  \A r \in Procs :
    mode[r] \in {"token", "raw", "ethBatch", "ethSingle"} => accepted[r] <= 1

\* The network accepted the broadcast of an ETH batch run's attempt.
EthBroadcastAccepted(r) ==
  /\ mode[r] = "ethBatch"
  /\ pc[r] = "eSend" /\ pc'[r] = "eWait"

\* C34: in an ETH batch run alone on its address, no broadcast carries a nonce
\* above the network's pending count: the nonce of an attempt that failed
\* before its broadcast is not skipped, so no gap is left below a later one.
C34_NoGapBelowBroadcastNonce ==
  [][\A r \in Procs :
       EthBroadcastAccepted(r) => nonce[r] <= netPending[sender[r]]]_vars

\* --------------------------------------------------- claims on the log files
\* C35: when two token runs with the same log directory have both completed,
\* the file each run's logPath names holds that run's own entries.
C35_LogsNotOverwritten ==
  (\A r \in Procs : mode[r] = "token" /\ logWritten[r])
  => \A r \in Procs :
       /\ files[logPath[r]].written
       /\ files[logPath[r]].text = logFile[r]

\* ------------------------------------------------- claims on failed token jobs
\* The items of a token run that were broadcast before the item in hand, in
\* index order: those of a non-zero amount.
BroadcastBefore(r) ==
  LET Sent(j) == planned[r][j] > 0
  IN SelectSeq([j \in 1..i[r] |-> j], Sent)

FailedByExhaustion(r) ==
  mode[r] = "token" /\ jobStatus[r] = "failed" /\ jobError[r] = "exhausted"

\* C36: the status response of a token job that failed by retry exhaustion
\* lists exactly the submissions the run broadcast, once each, in index order.
C36_FailedJobKeepsSubmissions ==
  \A r \in Procs :
    FailedByExhaustion(r)
    => LET shown == JobStatusResponse(r).transactions
       IN /\ shown.defined
          /\ Len(shown.list) = netPending[sender[r]]
          /\ Len(shown.list) = Len(BroadcastBefore(r))
          /\ \A k \in DOMAIN shown.list : shown.list[k].index = BroadcastBefore(r)[k]

\* A token job failed at its fourth item after two of the first three were
\* broadcast and one, of amount zero, was skipped.
C36_Witness ==
  \E r \in Procs :
    /\ FailedByExhaustion(r)
    /\ i[r] = 3
    /\ Len(BroadcastBefore(r)) = 2
    /\ netPending[sender[r]] = 2
    /\ Len(jobResults[r]) = 2

\* ------------------------------------------------ claims on progress counters
\* The total of a job: job.total of a raw or ETH job, the request's count of a
\* token job, whose record has no total.
TotalOfJob(r) == IF mode[r] = "token" THEN count[r] ELSE jobTotal[r]

\* C37: a job's completed counter never decreases and never exceeds the job's
\* total, and the job holds no more partial results than completed.
C37_ProgressWithinTotal ==
  /\ [](\A r \in Procs :
          mode[r] \in {"token", "raw", "ethBatch", "ethSingle"}
          => /\ jobCompleted[r] <= TotalOfJob(r)
             /\ Len(jobResults[r]) <= jobCompleted[r])
  /\ [][\A r \in Procs : jobCompleted'[r] >= jobCompleted[r]]_vars

\* ------------------------------------------------ claims on the run summary
\* C38: the summary of a raw or ETH batch run has success true exactly when
\* every planned item succeeded, successful = total.
C38_SuccessIffAllSucceeded ==
  \A r \in Procs :
    summary[r].kind \in {"raw", "ethBatch"}
    => (summary[r].success <=> summary[r].successful = summary[r].total)

\* ---------------------------------------- claims on the token transfer's gas
TokenGasApplied == fn.name = "tokenGasLimit"

\* C39: a token transfer's gas limit lies in [80000, 250000] whatever the
\* network estimates: the item's estimate plus 2000 clamped to the range, or,
\* when that estimation fails, the start-of-run estimate (120000 when it
\* failed too) plus 2000 clamped to the range.
C39_TokenGasLimitInRange ==
  TokenGasApplied
  => LET base == IF fn.args.itemOk THEN fn.args.estimate
                 ELSE IF fn.args.startOk THEN fn.args.startEstimate ELSE 120000
         padded == base + 2000
     IN /\ fn.value >= 80000 /\ fn.value <= 250000
        /\ fn.value = IF padded < 80000 THEN 80000
                      ELSE IF padded > 250000 THEN 250000 ELSE padded

\* A failed item estimation fell back on a start-of-run estimate above the
\* upper bound, and the limit was clamped to it.
C39_Witness ==
  /\ TokenGasApplied
  /\ ~fn.args.itemOk /\ fn.args.startOk
  /\ fn.args.startEstimate + 2000 > 250000
  /\ fn.value = 250000

=============================================================================
